---- MODULE Spec2Model ----
(***************************************************************************)
(* A model of cactus.c, a single-file terminal text editor.                *)
(*                                                                         *)
(* Bytes are modelled by their character codes, strings by sequences of    *)
(* bytes.  C arrays are 0-based: element i of a C array is element i + 1   *)
(* of the sequence that models it.  The global struct E is the record E.   *)
(***************************************************************************)
EXTENDS Integers, Sequences, FiniteSets, TLC

\* ------------------------------------------------------------------------
\* Bounds of the model
\* ------------------------------------------------------------------------
MaxRows == 3
MaxLen == 4
MaxDirty == 2
MaxQuery == 1
MaxFileLen == 5
MaxName == 2
MaxSaves == 1

\* ------------------------------------------------------------------------
\* Program constants
\* ------------------------------------------------------------------------
CACTUS_TAB_STOP == 8
CACTUS_QUIT_TIMES == 3

BACKSPACE == 127
ARROW_LEFT == 1000
ARROW_RIGHT == 1001
ARROW_UP == 1002
ARROW_DOWN == 1003
DEL_KEY == 1004
HOME_KEY == 1005
END_KEY == 1006
PAGE_UP == 1007
PAGE_DOWN == 1008

HL_NORMAL == 0
HL_COMMENT == 1
HL_MULTI_LINE_COMMENT == 2
HL_KEYWORDS == 3
HL_COMMON_TYPES == 4
HL_STRING == 5
HL_NUMBER == 6
HL_MATCH == 7

\* character literals used by the code
CH_NUL == 0
CH_TAB == 9
CH_LF == 10
CH_CR == 13
CH_ESC == 27
CH_SPACE == 32
CH_DQUOTE == 34
CH_SQUOTE == 39
CH_STAR == 42
CH_DOT == 46
CH_SLASH == 47
CH_BACKSLASH == 92
CH_BAR == 124
CH_c == 99


CTRL_KEY(k) == k % 32

NULL == "NULL"

\* ------------------------------------------------------------------------
\* The highlight database
\* ------------------------------------------------------------------------
C_HL_keywords == <<
    <<115, 119, 105, 116, 99, 104>>,
    <<105, 102>>,
    <<119, 104, 105, 108, 101>>,
    <<102, 111, 114>>,
    <<98, 114, 101, 97, 107>>,
    <<99, 111, 110, 116, 105, 110, 117, 101>>,
    <<114, 101, 116, 117, 114, 110>>,
    <<101, 108, 115, 101>>,
    <<115, 116, 114, 117, 99, 116>>,
    <<117, 110, 105, 111, 110>>,
    <<116, 121, 112, 101, 100, 101, 102>>,
    <<115, 116, 97, 116, 105, 99>>,
    <<101, 110, 117, 109>>,
    <<99, 108, 97, 115, 115>>,
    <<99, 97, 115, 101>>,
    <<105, 110, 116, 124>>,
    <<108, 111, 110, 103, 124>>,
    <<100, 111, 117, 98, 108, 101, 124>>,
    <<102, 108, 111, 97, 116, 124>>,
    <<99, 104, 97, 114, 124>>,
    <<117, 110, 115, 105, 103, 110, 101, 100, 124>>,
    <<115, 105, 103, 110, 101, 100, 124>>,
    <<118, 111, 105, 100, 124>> >>

C_HL_extensions == {".c", ".h", ".cpp"}

\* HLDB[0]: the only entry, for C
HLDB == [filetype |-> "c",
         filematch |-> C_HL_extensions,
         keywords |-> C_HL_keywords,
         singleline_comment_start |-> <<CH_SLASH, CH_SLASH>>,
         multiline_comment_start |-> <<CH_SLASH, CH_STAR>>,
         multiline_comment_end |-> <<CH_STAR, CH_SLASH>>,
         highlight_numbers |-> TRUE,
         highlight_strings |-> TRUE]

\* ------------------------------------------------------------------------
\* libc helpers
\* ------------------------------------------------------------------------
\* s[i] of a NUL-terminated C string held in the sequence s
At(s, i) == IF i >= 0 /\ i < Len(s) THEN s[i + 1] ELSE CH_NUL

\* strncmp(&s[i], pat, strlen(pat)) == 0
MatchAt(s, i, pat) == \A k \in 1..Len(pat) : At(s, i + k - 1) = pat[k]

isspace(c) == c \in {9, 10, 11, 12, 13, 32}

isdigit(c) == c >= 48 /\ c <= 57

iscntrl(c) == (c >= 0 /\ c < 32) \/ c = 127

SeparatorChars == {44, 46, 40, 41, 43, 45, 47, 42, 61, 126, 37, 60, 62, 91, 93, 59}

is_seperator(c) == isspace(c) \/ c = CH_NUL \/ c \in SeparatorChars

\* memset(&hl[i], v, n)
MemSet(hl, i, v, n) == [k \in 1..Len(hl) |-> IF k >= i + 1 /\ k <= i + n THEN v ELSE hl[k]]

\* strstr(s, q): offset of the first occurrence of q in s, or -1
strstr(s, q) ==
    LET hits == {i \in 0..Len(s) : i + Len(q) <= Len(s) /\ MatchAt(s, i, q)}
    IN IF hits = {} THEN -1 ELSE CHOOSE i \in hits : \A j \in hits : i <= j

\* ------------------------------------------------------------------------
\* syntax highlighting
\* ------------------------------------------------------------------------
\* keyword j of the database names a common type: it ends in '|'
IsCommonType(j) == HLDB.keywords[j][Len(HLDB.keywords[j])] = CH_BAR

\* kLen of keyword j
KeywordLen(j) ==
    IF IsCommonType(j) THEN Len(HLDB.keywords[j]) - 1 ELSE Len(HLDB.keywords[j])

\* keywords matched without looking at the byte that follows them
KeywordAt_Prefix(render, i) ==
    LET hits == {j \in 1..Len(HLDB.keywords) :
                    MatchAt(render, i, SubSeq(HLDB.keywords[j], 1, KeywordLen(j)))}
    IN IF hits = {} THEN 0 ELSE CHOOSE j \in hits : \A k \in hits : j <= k

\* the for loop over keywords[j]: the index of the first keyword that matches
\* at render[i], 0 when none does
KeywordAt(render, i) ==
    LET hits == {j \in 1..Len(HLDB.keywords) :
                    /\ MatchAt(render, i, SubSeq(HLDB.keywords[j], 1, KeywordLen(j)))
                    /\ is_seperator(At(render, i + KeywordLen(j)))}
    IN IF hits = {} THEN 0 ELSE CHOOSE j \in hits : \A k \in hits : j <= k

RECURSIVE SyntaxScan(_, _, _, _, _, _)
RECURSIVE ScanKeyword(_, _, _, _, _, _)
\* the end of the loop body, reached with prevSep set: kw is the keyword found
ScanKeyword(render, hl, i, in_string, in_comment, kw) ==
    IF kw # 0
    THEN SyntaxScan(render,
                    MemSet(hl, i, IF IsCommonType(kw) THEN HL_COMMON_TYPES ELSE HL_KEYWORDS,
                           KeywordLen(kw)),
                    i + KeywordLen(kw), 0, in_string, in_comment)
    ELSE SyntaxScan(render, hl, i + 1, IF is_seperator(At(render, i)) THEN 1 ELSE 0,
                    in_string, in_comment)

\* the while loop of editorUpdateSyntax; in_string is 0 or the quote byte
SyntaxScan(render, hl, i, prevSep, in_string, in_comment) ==
    LET rsize == Len(render)
        c == At(render, i)
        prev_hl == IF i > 0 THEN hl[i] ELSE HL_NORMAL
        scs == HLDB.singleline_comment_start
        mcs == HLDB.multiline_comment_start
        mce == HLDB.multiline_comment_end
    IN IF i >= rsize THEN [hl |-> hl, in_comment |-> in_comment]
       ELSE IF Len(scs) > 0 /\ in_string = 0 /\ in_comment = 0 /\ MatchAt(render, i, scs)
       THEN [hl |-> MemSet(hl, i, HL_COMMENT, rsize - i), in_comment |-> in_comment]
       ELSE IF Len(mcs) > 0 /\ Len(mce) > 0 /\ in_string = 0 /\ in_comment = 1
       THEN IF MatchAt(render, i, mce)
            THEN SyntaxScan(render, MemSet(hl, i, HL_MULTI_LINE_COMMENT, Len(mce)),
                            i + Len(mce), 1, in_string, 0)
            ELSE SyntaxScan(render, MemSet(hl, i, HL_MULTI_LINE_COMMENT, 1),
                            i + 1, prevSep, in_string, in_comment)
       ELSE IF Len(mcs) > 0 /\ Len(mce) > 0 /\ in_string = 0 /\ MatchAt(render, i, mcs)
       THEN SyntaxScan(render, MemSet(hl, i, HL_MULTI_LINE_COMMENT, Len(mcs)),
                       i + Len(mcs), prevSep, in_string, 1)
       ELSE IF HLDB.highlight_strings /\ in_string # 0
       THEN IF c = CH_BACKSLASH /\ i + 1 < rsize
            THEN SyntaxScan(render, MemSet(hl, i, HL_STRING, 2), i + 2,
                            prevSep, in_string, in_comment)
            ELSE SyntaxScan(render, MemSet(hl, i, HL_STRING, 1), i + 1, 1,
                            IF c = in_string THEN 0 ELSE in_string, in_comment)
       ELSE IF HLDB.highlight_strings /\ (c = CH_DQUOTE \/ c = CH_SQUOTE)
       THEN SyntaxScan(render, MemSet(hl, i, HL_STRING, 1), i + 1, prevSep, c, in_comment)
       ELSE IF /\ HLDB.highlight_numbers
               /\ \/ (isdigit(c) /\ (prevSep = 1 \/ prev_hl = HL_NUMBER))
                  \/ (c = CH_DOT /\ prev_hl = HL_NUMBER)
       THEN SyntaxScan(render, MemSet(hl, i, HL_NUMBER, 1), i + 1, 0, in_string, in_comment)
       ELSE IF prevSep = 1
       THEN ScanKeyword(render, hl, i, in_string, in_comment, KeywordAt(render, i))
       ELSE SyntaxScan(render, hl, i + 1, IF is_seperator(c) THEN 1 ELSE 0,
                       in_string, in_comment)

\* a highlight array sized by the raw bytes instead of the rendered ones
NormalHl_RawSize(row) == [k \in 1..row.size |-> HL_NORMAL]

\* row->hl = realloc(row->hl, row->rsize); memset(row->hl, HL_NORMAL, row->rsize)
NormalHl(row) == [k \in 1..row.rsize |-> HL_NORMAL]

\* in_comment seeded from the row's own flag instead of its predecessor's
SeedComment_OwnFlag(EE, row) ==
    IF row.idx > 0 /\ row.hl_open_comment # 0 THEN 1 ELSE 0

\* in_comment at the start of the scan of row, which lies in EE.row
SeedComment(EE, row) ==
    IF row.idx > 0 /\ EE.row[row.idx].hl_open_comment # 0 THEN 1 ELSE 0

RECURSIVE editorUpdateSyntax(_, _)
\* the end of editorUpdateSyntax without the call on the next row
UpdateSyntaxEnd_Stop(EE, p, res) ==
    [EE EXCEPT !.row[p + 1].hl = res.hl,
               !.row[p + 1].hl_open_comment = res.in_comment]

RECURSIVE UpdateSyntaxEnd(_, _, _)
\* the end of editorUpdateSyntax(&EE.row[p]), res being the result of its scan
UpdateSyntaxEnd(EE, p, res) ==
    IF /\ EE.row[p + 1].hl_open_comment # res.in_comment
       /\ EE.row[p + 1].idx + 1 < EE.numRows
    THEN editorUpdateSyntax([EE EXCEPT !.row[p + 1].hl = res.hl,
                                       !.row[p + 1].hl_open_comment = res.in_comment],
                            EE.row[p + 1].idx + 1)
    ELSE [EE EXCEPT !.row[p + 1].hl = res.hl,
                    !.row[p + 1].hl_open_comment = res.in_comment]

\* editorUpdateSyntax(&EE.row[p]); the result is the whole editor state,
\* because the call may go on to the rows below
editorUpdateSyntax(EE, p) ==
    IF EE.syntax = NULL
    THEN [EE EXCEPT !.row[p + 1].hl = NormalHl(EE.row[p + 1])]
    ELSE UpdateSyntaxEnd(EE, p,
             SyntaxScan(EE.row[p + 1].render, NormalHl(EE.row[p + 1]), 0, 1, 0,
                        SeedComment(EE, EE.row[p + 1])))

RECURSIVE UpdateSyntaxVisits(_, _)
\* the rows editorUpdateSyntax(&EE.row[p]) scans, in the order of the calls
UpdateSyntaxVisits(EE, p) ==
    IF EE.syntax = NULL THEN <<p>>
    ELSE LET res == SyntaxScan(EE.row[p + 1].render, NormalHl(EE.row[p + 1]), 0, 1, 0,
                               SeedComment(EE, EE.row[p + 1]))
         IN IF /\ EE.row[p + 1].hl_open_comment # res.in_comment
               /\ EE.row[p + 1].idx + 1 < EE.numRows
            THEN <<p>> \o UpdateSyntaxVisits([EE EXCEPT !.row[p + 1].hl = res.hl,
                                                        !.row[p + 1].hl_open_comment = res.in_comment],
                                             EE.row[p + 1].idx + 1)
            ELSE <<p>>

\* bytes a file name typed at the "Save as" prompt is made of
NameChars == {CH_DOT, CH_c}

RECURSIVE SeqsUpTo(_, _)
\* the sequences over S of length at most n
SeqsUpTo(S, n) ==
    IF n = 0 THEN {<<>>}
    ELSE LET shorter == SeqsUpTo(S, n - 1)
         IN shorter \cup {Append(q, x) : q \in {r \in shorter : Len(r) = n - 1}, x \in S}

\* the one-character string of a byte of a file name
CharName(c) ==
    CASE c = CH_DOT -> "."
      [] c = CH_c -> "c"
      [] OTHER -> "?"

RECURSIVE NameOf(_)
\* the C string of the bytes b
NameOf(b) == IF b = <<>> THEN "" ELSE CharName(Head(b)) \o NameOf(Tail(b))

\* strrchr(b, c): the offset of the last c in b, -1 for a null pointer
strrchr(b, c) ==
    LET at == {k \in 1..Len(b) : b[k] = c}
    IN IF at = {} THEN -1 ELSE (CHOOSE k \in at : \A m \in at : m <= k) - 1

\* the extension of a typed file name, given the bytes it was typed as
ExtOfBytes(b, p) == IF p = -1 THEN NULL ELSE NameOf(SubSeq(b, p + 1, Len(b)))

\* char *ext = strrchr(E.filename, '.')
ExtOf(filename) ==
    CASE filename = "main.c" -> ".c"
      [] filename = "notes.txt" -> ".txt"
      [] OTHER ->
           LET typed == {b \in SeqsUpTo(NameChars, MaxName) : NameOf(b) = filename}
           IN IF typed = {} THEN NULL
              ELSE ExtOfBytes(CHOOSE b \in typed : TRUE,
                              strrchr(CHOOSE b \in typed : TRUE, CH_DOT))

RECURSIVE UpdateSyntaxFrom(_, _)
\* the loop over fileRow in editorSelectSyntaxHighlight
UpdateSyntaxFrom(EE, fileRow) ==
    IF fileRow < EE.numRows
    THEN UpdateSyntaxFrom(editorUpdateSyntax(EE, fileRow), fileRow + 1)
    ELSE EE

editorSelectSyntaxHighlight(EE) ==
    LET E0 == [EE EXCEPT !.syntax = NULL]
    IN IF EE.filename = NULL THEN E0
       ELSE IF ExtOf(EE.filename) \in HLDB.filematch
            THEN UpdateSyntaxFrom([E0 EXCEPT !.syntax = HLDB.filetype], 0)
            ELSE E0

\* ------------------------------------------------------------------------
\* row operations
\* ------------------------------------------------------------------------
RECURSIVE CxToRxLoop(_, _, _, _)
CxToRxLoop(chars, cx, j, rx) ==
    IF j < cx
    THEN CxToRxLoop(chars, cx, j + 1,
                    IF At(chars, j) = CH_TAB
                    THEN rx + (CACTUS_TAB_STOP - 1) - (rx % CACTUS_TAB_STOP) + 1
                    ELSE rx + 1)
    ELSE rx

\* every byte taken as one column wide
editorRowCxToRx_NoTabs(row, cx) == cx

editorRowCxToRx(row, cx) == CxToRxLoop(row.chars, cx, 0, 0)

RECURSIVE RxToCxLoop(_, _, _, _)
RxToCxLoop(row, rx, cx, cur_rx) ==
    LET next_rx == IF At(row.chars, cx) = CH_TAB
                   THEN cur_rx + (CACTUS_TAB_STOP - 1) - (cur_rx % CACTUS_TAB_STOP) + 1
                   ELSE cur_rx + 1
    IN IF cx < row.size
       THEN IF next_rx > rx THEN cx ELSE RxToCxLoop(row, rx, cx + 1, next_rx)
       ELSE cx

editorRowRxToCx(row, rx) == RxToCxLoop(row, rx, 0, 0)

\* a tab taken as eight columns wherever it starts
PadToTabStop_FullWidth(render) ==
    render \o [k \in 1..(CACTUS_TAB_STOP - 1) |-> CH_SPACE]

RECURSIVE PadToTabStop(_)
\* while(index % CACTUS_TAB_STOP != 0) render[index++] = ' '
PadToTabStop(render) ==
    IF Len(render) % CACTUS_TAB_STOP # 0
    THEN PadToTabStop(Append(render, CH_SPACE))
    ELSE render

RECURSIVE RenderLoop(_, _, _, _)
RenderLoop(chars, size, j, render) ==
    IF j < size
    THEN RenderLoop(chars, size, j + 1,
                    IF At(chars, j) = CH_TAB
                    THEN PadToTabStop(Append(render, CH_SPACE))
                    ELSE Append(render, At(chars, j)))
    ELSE render

\* row->render = render; row->rsize = index
SetRender(EE, p, render) ==
    [EE EXCEPT !.row[p + 1].render = render, !.row[p + 1].rsize = Len(render)]

\* editorUpdateRow(&EE.row[p])
editorUpdateRow(EE, p) ==
    editorUpdateSyntax(
        SetRender(EE, p, RenderLoop(EE.row[p + 1].chars, EE.row[p + 1].size, 0, <<>>)), p)

\* the rows moved without their idx being updated
ShiftIdx_Keep(rows, from, to, d) == [k \in 1..(to - from) |-> rows[from + k]]

\* the rows E.row[from .. to - 1] with d added to each idx
ShiftIdx(rows, from, to, d) ==
    [k \in 1..(to - from) |-> [rows[from + k] EXCEPT !.idx = @ + d]]

editorInsertRow(EE, at, s) ==
    IF at < 0 \/ at > EE.numRows THEN EE
    ELSE LET new == [idx |-> at, size |-> Len(s), chars |-> s, rsize |-> 0,
                     render |-> <<>>, hl |-> <<>>, hl_open_comment |-> 0]
             moved == SubSeq(EE.row, 1, at) \o <<new>>
                        \o ShiftIdx(EE.row, at, EE.numRows, 1)
             E1 == editorUpdateRow([EE EXCEPT !.row = moved], at)
         IN [E1 EXCEPT !.numRows = @ + 1, !.dirty = @ + 1]

\* editorDelRow counting a call with a bad index as a change
editorDelRow_CountAlways(EE, at) ==
    IF at < 0 \/ at >= EE.numRows THEN [EE EXCEPT !.dirty = @ + 1]
    ELSE [EE EXCEPT !.row = SubSeq(EE.row, 1, at)
                              \o ShiftIdx(EE.row, at + 1, EE.numRows, -1),
                    !.numRows = @ - 1,
                    !.dirty = @ + 1]

editorDelRow(EE, at) ==
    IF at < 0 \/ at >= EE.numRows THEN EE
    ELSE [EE EXCEPT !.row = SubSeq(EE.row, 1, at)
                              \o ShiftIdx(EE.row, at + 1, EE.numRows, -1),
                    !.numRows = @ - 1,
                    !.dirty = @ + 1]

\* editorRowInsertChar(&EE.row[p], at, c)
editorRowInsertChar(EE, p, at, c) ==
    LET row == EE.row[p + 1]
        a == IF at < 0 \/ at > row.size THEN row.size ELSE at
        chars == SubSeq(row.chars, 1, a) \o <<c>> \o SubSeq(row.chars, a + 1, row.size)
        E1 == editorUpdateRow([EE EXCEPT !.row[p + 1].chars = chars,
                                         !.row[p + 1].size = @ + 1], p)
    IN [E1 EXCEPT !.dirty = @ + 1]

\* editorRowAppendString that leaves the dirty counter alone
editorRowAppendString_Clean(EE, p, s) ==
    editorUpdateRow([EE EXCEPT !.row[p + 1].chars = @ \o s,
                               !.row[p + 1].size = @ + Len(s)], p)

\* editorRowAppendString(&EE.row[p], s, len)
editorRowAppendString(EE, p, s) ==
    LET E1 == editorUpdateRow([EE EXCEPT !.row[p + 1].chars = @ \o s,
                                         !.row[p + 1].size = @ + Len(s)], p)
    IN [E1 EXCEPT !.dirty = @ + 1]

\* editorRowDelChar(&EE.row[p], at)
editorRowDelChar(EE, p, at) ==
    LET row == EE.row[p + 1]
        chars == SubSeq(row.chars, 1, at) \o SubSeq(row.chars, at + 2, row.size)
        E1 == editorUpdateRow([EE EXCEPT !.row[p + 1].chars = chars,
                                         !.row[p + 1].size = @ - 1], p)
    IN IF at < 0 \/ at >= row.size THEN EE ELSE [E1 EXCEPT !.dirty = @ + 1]

\* ------------------------------------------------------------------------
\* editor operations
\* ------------------------------------------------------------------------
\* the insertion without the cursor moving past the new byte
InsertAtCursor_NoAdvance(EE, c) == editorRowInsertChar(EE, EE.cy, EE.cx, c)

\* editorRowInsertChar(&E.row[E.cy], E.cx, c); E.cx++
InsertAtCursor(EE, c) ==
    [editorRowInsertChar(EE, EE.cy, EE.cx, c) EXCEPT !.cx = @ + 1]

editorInsertChar(EE, c) ==
    InsertAtCursor(IF EE.cy = EE.numRows THEN editorInsertRow(EE, EE.numRows, <<>>) ELSE EE,
                   c)

\* row->size = E.cx; row->chars[row->size] = '\0'; editorUpdateRow(row)
TruncateRow(EE, cy, cx) ==
    editorUpdateRow([EE EXCEPT !.row[cy + 1].size = cx,
                               !.row[cy + 1].chars = SubSeq(@, 1, cx)], cy)

editorInsertNewLine(EE) ==
    [(IF EE.cx = 0
      THEN editorInsertRow(EE, EE.cy, <<>>)
      ELSE TruncateRow(editorInsertRow(EE, EE.cy + 1,
                                       SubSeq(EE.row[EE.cy + 1].chars, EE.cx + 1,
                                              EE.row[EE.cy + 1].size)),
                       EE.cy, EE.cx))
     EXCEPT !.cy = @ + 1, !.cx = 0]

\* the join taking E.cx from the row above after the append instead of before
editorDelChar_CxAfterAppend(EE) ==
    IF EE.cy = EE.numRows THEN EE
    ELSE IF EE.cx = 0 /\ EE.cy = 0 THEN EE
    ELSE IF EE.cx > 0
    THEN [editorRowDelChar(EE, EE.cy, EE.cx - 1) EXCEPT !.cx = @ - 1]
    ELSE [editorDelRow(
              editorRowAppendString(EE, EE.cy - 1,
                                    SubSeq(EE.row[EE.cy + 1].chars, 1, EE.row[EE.cy + 1].size)),
              EE.cy)
          EXCEPT !.cy = @ - 1,
                 !.cx = EE.row[EE.cy].size + EE.row[EE.cy + 1].size]

editorDelChar(EE) ==
    IF EE.cy = EE.numRows THEN EE
    ELSE IF EE.cx = 0 /\ EE.cy = 0 THEN EE
    ELSE IF EE.cx > 0
    THEN [editorRowDelChar(EE, EE.cy, EE.cx - 1) EXCEPT !.cx = @ - 1]
    ELSE [editorDelRow(
              editorRowAppendString([EE EXCEPT !.cx = EE.row[EE.cy].size], EE.cy - 1,
                                    SubSeq(EE.row[EE.cy + 1].chars, 1, EE.row[EE.cy + 1].size)),
              EE.cy)
          EXCEPT !.cy = @ - 1]

\* ------------------------------------------------------------------------
\* file i/o
\* ------------------------------------------------------------------------
RECURSIVE RowsToStringLoop(_, _, _)
RowsToStringLoop(EE, j, buf) ==
    IF j < EE.numRows
    THEN RowsToStringLoop(EE, j + 1,
             buf \o SubSeq(EE.row[j + 1].chars, 1, EE.row[j + 1].size) \o <<CH_LF>>)
    ELSE buf

editorRowsToString(EE) == RowsToStringLoop(EE, 0, <<>>)

\* getline() at offset pos of the file: linelen is the number of bytes up to
\* and including the next '\n', or up to the end of the file, and -1 when
\* nothing is left; line is the buffer it fills
getline(bytes, pos) ==
    LET nls == {k \in (pos + 1)..Len(bytes) : bytes[k] = CH_LF}
        end == IF nls = {} THEN Len(bytes) ELSE CHOOSE k \in nls : \A m \in nls : k <= m
    IN IF pos >= Len(bytes) THEN [linelen |-> -1, line |-> <<>>]
       ELSE [linelen |-> end - pos, line |-> SubSeq(bytes, pos + 1, end)]

RECURSIVE StripLineEnd(_, _)
\* while(linelen > 0 && (line[linelen-1] == '\n' || line[linelen-1] == '\r')) linelen--
StripLineEnd(line, linelen) ==
    IF linelen > 0 /\ (line[linelen] = CH_LF \/ line[linelen] = CH_CR)
    THEN StripLineEnd(line, linelen - 1)
    ELSE linelen

RECURSIVE OpenLoop(_, _, _)
RECURSIVE OpenLine(_, _, _, _)
\* the body of the while loop of editorOpen, got being what getline returned
OpenLine(EE, bytes, pos, got) ==
    IF got.linelen = -1 THEN EE
    ELSE OpenLoop(editorInsertRow(EE, EE.numRows,
                      SubSeq(got.line, 1, StripLineEnd(got.line, got.linelen))),
                  bytes, pos + got.linelen)

\* the while loop of editorOpen, reading from offset pos of the file
OpenLoop(EE, bytes, pos) == OpenLine(EE, bytes, pos, getline(bytes, pos))

\* the offset in the file after the getline call before the loop
AfterFirstLine(first) == IF first.linelen = -1 THEN 0 ELSE first.linelen

editorOpen(EE, filename, bytes) ==
    [OpenLoop(editorSelectSyntaxHighlight([EE EXCEPT !.filename = filename]),
              bytes, AfterFirstLine(getline(bytes, 0)))
     EXCEPT !.dirty = 0]

\* ------------------------------------------------------------------------
\* find
\* ------------------------------------------------------------------------
\* memcpy(dst, src, n)
MemCpy(dst, src, n) == [k \in 1..Len(dst) |-> IF k <= n THEN src[k] ELSE dst[k]]

RECURSIVE FindLoop(_, _, _, _, _)
RECURSIVE FindRow(_, _, _, _, _, _)
\* the body of the for loop of editorFindCallback on row cur, match being the
\* offset strstr found, -1 for a null pointer
FindRow(EE, S, query, i, cur, match) ==
    IF match # -1
    THEN [E |-> [EE EXCEPT !.cy = cur,
                           !.cx = editorRowRxToCx(EE.row[cur + 1], match),
                           !.rowOff = EE.numRows,
                           !.row[cur + 1].hl = MemSet(@, match, HL_MATCH, Len(query))],
          S |-> [S EXCEPT !.lastMatch = cur,
                          !.saved_hl_line = cur,
                          !.saved_hl = <<SubSeq(EE.row[cur + 1].hl, 1, EE.row[cur + 1].rsize)>>]]
    ELSE FindLoop(EE, S, query, i + 1, cur)

\* the scan stopping at both ends instead of wrapping
NextRow_Clamp(EE, c1) ==
    IF c1 = -1 THEN 0 ELSE IF c1 = EE.numRows THEN EE.numRows - 1 ELSE c1

\* current += direction, wrapped at both ends
NextRow(EE, c1) ==
    IF c1 = -1 THEN EE.numRows - 1 ELSE IF c1 = EE.numRows THEN 0 ELSE c1

\* the for loop of editorFindCallback; S holds the function's statics, where
\* saved_hl is <<>> for a null pointer and <<b>> for a buffer of bytes b
FindLoop(EE, S, query, i, current) ==
    IF i >= EE.numRows THEN [E |-> EE, S |-> S]
    ELSE FindRow(EE, S, query, i, NextRow(EE, current + S.direction),
                 strstr(EE.row[NextRow(EE, current + S.direction) + 1].render, query))

\* the saved highlight never copied back
RestoreHl_Skip(EE, S) == EE

\* if (saved_hl) { memcpy(...); free(saved_hl); saved_hl = NULL; }
RestoreHl(EE, S) ==
    IF S.saved_hl # <<>>
    THEN [EE EXCEPT !.row[S.saved_hl_line + 1].hl =
                        MemCpy(@, S.saved_hl[1], EE.row[S.saved_hl_line + 1].rsize)]
    ELSE EE

\* the arrow keys leaving the direction forward
FindKey_Forward(S, key) ==
    IF key \in {ARROW_RIGHT, ARROW_DOWN, ARROW_LEFT, ARROW_UP}
    THEN [S EXCEPT !.direction = 1]
    ELSE [S EXCEPT !.lastMatch = -1, !.direction = 1]

\* the statics after the key has been looked at
FindKey(S, key) ==
    IF key = CH_CR \/ key = CH_ESC THEN [S EXCEPT !.lastMatch = -1, !.direction = 1]
    ELSE IF key = ARROW_RIGHT \/ key = ARROW_DOWN THEN [S EXCEPT !.direction = 1]
    ELSE IF key = ARROW_LEFT \/ key = ARROW_UP
    THEN [S EXCEPT !.direction = IF S.lastMatch = -1 THEN 1 ELSE -1]
    ELSE [S EXCEPT !.lastMatch = -1, !.direction = 1]

\* the search of editorFindCallback, S being the statics as the key left them
FindSearch(EE, S, query) == FindLoop(EE, S, query, 0, S.lastMatch)

editorFindCallback(EE, S, query, key) ==
    IF key = CH_CR \/ key = CH_ESC
    THEN [E |-> RestoreHl(EE, S), S |-> FindKey([S EXCEPT !.saved_hl = <<>>], key)]
    ELSE FindSearch(RestoreHl(EE, S), FindKey([S EXCEPT !.saved_hl = <<>>], key), query)

\* ------------------------------------------------------------------------
\* output
\* ------------------------------------------------------------------------
\* editorScroll without its scroll-up step
editorScroll_NoScrollUp(EE) ==
    LET rx == IF EE.cy < EE.numRows THEN editorRowCxToRx(EE.row[EE.cy + 1], EE.cx) ELSE 0
        ro2 == IF EE.cy >= EE.rowOff + EE.screenRows
               THEN EE.cy - EE.screenRows + 1 ELSE EE.rowOff
        co1 == IF rx < EE.colOff THEN rx ELSE EE.colOff
        co2 == IF rx >= co1 + EE.screenCols THEN rx - EE.screenCols + 1 ELSE co1
    IN [EE EXCEPT !.rx = rx, !.rowOff = ro2, !.colOff = co2]

\* editorScroll scrolling down one row too few
editorScroll_OffByOne(EE) ==
    LET rx == IF EE.cy < EE.numRows THEN editorRowCxToRx(EE.row[EE.cy + 1], EE.cx) ELSE 0
        ro1 == IF EE.cy < EE.rowOff THEN EE.cy ELSE EE.rowOff
        ro2 == IF EE.cy > ro1 + EE.screenRows THEN EE.cy - EE.screenRows + 1 ELSE ro1
        co1 == IF rx < EE.colOff THEN rx ELSE EE.colOff
        co2 == IF rx > co1 + EE.screenCols THEN rx - EE.screenCols + 1 ELSE co1
    IN [EE EXCEPT !.rx = rx, !.rowOff = ro2, !.colOff = co2]

editorScroll(EE) ==
    LET rx == IF EE.cy < EE.numRows THEN editorRowCxToRx(EE.row[EE.cy + 1], EE.cx) ELSE 0
        ro1 == IF EE.cy < EE.rowOff THEN EE.cy ELSE EE.rowOff
        ro2 == IF EE.cy >= ro1 + EE.screenRows THEN EE.cy - EE.screenRows + 1 ELSE ro1
        co1 == IF rx < EE.colOff THEN rx ELSE EE.colOff
        co2 == IF rx >= co1 + EE.screenCols THEN rx - EE.screenCols + 1 ELSE co1
    IN [EE EXCEPT !.rx = rx, !.rowOff = ro2, !.colOff = co2]

\* ------------------------------------------------------------------------
\* input
\* ------------------------------------------------------------------------
\* the switch of editorMoveCursor
MoveCursorKey(EE, key) ==
    CASE key = ARROW_LEFT ->
           IF EE.cx # 0 THEN [EE EXCEPT !.cx = @ - 1]
           ELSE IF EE.cy > 0
                THEN [EE EXCEPT !.cy = @ - 1, !.cx = EE.row[EE.cy].size]
           ELSE IF EE.cy < EE.numRows /\ EE.cx = EE.row[EE.cy + 1].size
                THEN [EE EXCEPT !.cy = @ + 1, !.cx = 0]
           ELSE EE
      [] key = ARROW_RIGHT ->
           IF EE.cy < EE.numRows /\ EE.cx < EE.row[EE.cy + 1].size
           THEN [EE EXCEPT !.cx = @ + 1] ELSE EE
      [] key = ARROW_UP ->
           IF EE.cy # 0 THEN [EE EXCEPT !.cy = @ - 1] ELSE EE
      [] key = ARROW_DOWN ->
           IF EE.cy < EE.numRows THEN [EE EXCEPT !.cy = @ + 1] ELSE EE
      [] OTHER -> EE

\* the cursor left where the switch put it
SnapCursor_None(EE) == EE

\* snap cursor to the end of line
SnapCursor(EE) ==
    LET rowLen == IF EE.cy >= EE.numRows THEN 0 ELSE EE.row[EE.cy + 1].size
    IN IF EE.cx > rowLen THEN [EE EXCEPT !.cx = rowLen] ELSE EE

editorMoveCursor(EE, key) == SnapCursor(MoveCursorKey(EE, key))

RECURSIVE MoveCursorTimes(_, _, _)
\* while(times--) editorMoveCursor(key)
MoveCursorTimes(EE, key, times) ==
    IF times > 0 THEN MoveCursorTimes(editorMoveCursor(EE, key), key, times - 1) ELSE EE

\* the cases of editorProcessKeypress that neither prompt nor exit
editorProcessKeypress(EE, c) ==
    CASE c = CH_CR -> editorInsertNewLine(EE)
      [] c = HOME_KEY -> [EE EXCEPT !.cx = 0]
      [] c = END_KEY ->
           IF EE.cy < EE.numRows THEN [EE EXCEPT !.cx = EE.row[EE.cy + 1].size] ELSE EE
      [] c = BACKSPACE \/ c = CTRL_KEY(104) -> editorDelChar(EE)
      [] c = DEL_KEY -> editorDelChar(editorMoveCursor(EE, ARROW_RIGHT))
      [] c = PAGE_UP ->
           MoveCursorTimes([EE EXCEPT !.cy = EE.rowOff], ARROW_UP, EE.screenRows)
      [] c = PAGE_DOWN ->
           MoveCursorTimes([EE EXCEPT !.cy = IF EE.rowOff + EE.screenRows - 1 > EE.numRows
                                             THEN EE.numRows
                                             ELSE EE.rowOff + EE.screenRows - 1],
                           ARROW_DOWN, EE.screenRows)
      [] c \in {ARROW_UP, ARROW_DOWN, ARROW_LEFT, ARROW_RIGHT} -> editorMoveCursor(EE, c)
      [] c = CTRL_KEY(108) \/ c = CH_ESC -> EE
      [] OTHER -> editorInsertChar(EE, c)

\* ------------------------------------------------------------------------
\* init
\* ------------------------------------------------------------------------
\* initEditor(), for a terminal window of rows x cols
\* vsnprintf(E.statusmsg, sizeof(E.statusmsg), fmt, ap); arg is the sequence
\* of values fmt formats
editorSetStatusMessage(EE, fmt, arg) ==
    [EE EXCEPT !.statusmsg = [fmt |-> fmt, arg |-> arg]]

initEditor(rows, cols) ==
    [cx |-> 0, cy |-> 0, rx |-> 0, rowOff |-> 0, colOff |-> 0,
     screenRows |-> rows - 2, screenCols |-> cols,
     numRows |-> 0, row |-> <<>>, dirty |-> 0,
     filename |-> NULL, syntax |-> NULL,
     statusmsg |-> [fmt |-> "", arg |-> <<>>]]

\* ------------------------------------------------------------------------
\* The program as a state machine
\* ------------------------------------------------------------------------
VARIABLES
    E,          \* struct editorConfig E
    pc,         \* where main() is: "open", "refresh", "key"
    prompt,     \* the editorPrompt call in progress: "none" or "find"
    buf,        \* editorPrompt's input buffer
    findStatic, \* the static variables of editorFindCallback
    findSaved,  \* the local variables of editorFind (NoLocals outside a call)
    argv,       \* the file named on the command line, if any
    disk,       \* the bytes of that file on disk
    quitTimes,  \* the static variable of editorProcessKeypress
    atStart,    \* history: the cursor, viewport and highlights when the
                \* search in progress began (NoSession outside a search)
    nSaves,     \* history: how many times editorSave has written the file
    tty         \* history: the writes to standard output since the last key
                \* was read, each one the bytes of a write() call

vars == <<E, pc, prompt, buf, findStatic, findSaved, argv, disk, quitTimes, atStart, nSaves,
          tty>>

\* terminal windows (rows, columns) reported by getWindowSize
Windows == {<<4, 3>>}

\* bytes the user types into the buffer and into the search prompt
TypedChars == {CH_STAR}

QueryChars == {CH_SLASH}

\* files given to the editing runs
EditFiles ==
    { [filename |-> NULL, bytes |-> <<>>],
      [filename |-> "main.c",
       bytes |-> <<CH_DOT, CH_LF, CH_SLASH, CH_SLASH, CH_STAR, CH_LF, CH_SLASH, CH_LF>>],
      [filename |-> "notes.txt", bytes |-> <<CH_DOT, CH_LF, CH_TAB, CH_LF>>] }

\* bytes of the files given to the load runs
FileBytes == {CH_DOT, CH_CR, CH_LF}

LoadFiles == [filename : {"notes.txt"}, bytes : SeqsUpTo(FileBytes, MaxFileLen)]

NoLocals == [cx |-> 0, cy |-> 0, coloff |-> 0, rowoff |-> 0]

NoSession == [cx |-> 0, cy |-> 0, colOff |-> 0, rowOff |-> 0, hl |-> <<>>]

\* the messages main(), editorFind() and editorSave() format
MsgHelp == "HELP: Ctrl-S = save | Ctrl-Q = quit | Ctrl-F = find"

MsgSearch == "Search: %s (Use ESC/Arrows/Enter)"

MsgSaveAs == "Save as: %s (ESC to cancel)"

MsgAborted == "Save aborted"

MsgWritten == "%d bytes written to disk."

MsgCantSave == "Can't save! I/O error: %s"

MsgWarning == "WARNING!!! File has unsaved changes. Press Ctrl-Q %d more times to quit."

\* ------------------------------------------------------------------------
\* output
\* ------------------------------------------------------------------------
\* the escape sequences the editor appends to its buffer, as bytes
ESC_INVERSE == <<CH_ESC, 91, 55, 109>>

ESC_RESET == <<CH_ESC, 91, 109>>

ESC_DEFAULT_COLOR == <<CH_ESC, 91, 51, 57, 109>>

ESC_CLEAR_LINE == <<CH_ESC, 91, 75>>

ESC_HIDE_CURSOR == <<CH_ESC, 91, 63, 50, 53, 108>>

ESC_SHOW_CURSOR == <<CH_ESC, 91, 63, 50, 53, 104>>

ESC_HOME == <<CH_ESC, 91, 72>>

CRLF == <<CH_CR, CH_LF>>

\* abAppend(ab, s, len): the first len bytes of s go to the end of ab
abAppend(ab, s, len) == ab \o SubSeq(s, 1, len)

\* what snprintf keeps of s in a buffer with room for n characters
Truncate(s, n) == IF Len(s) > n THEN SubSeq(s, 1, n) ELSE s

RECURSIVE Decimal(_)
\* what %d prints for n >= 0
Decimal(n) == IF n < 10 THEN <<48 + n>> ELSE Decimal(n \div 10) \o <<48 + (n % 10)>>

\* snprintf(buf, sizeof(buf), "\x1b[%dm", color)
ColorSequence(color) == <<CH_ESC, 91>> \o Decimal(color) \o <<109>>

editorSyntaxToColor(hl) ==
    CASE hl = HL_COMMENT -> 36
      [] hl = HL_MULTI_LINE_COMMENT -> 36
      [] hl = HL_KEYWORDS -> 33
      [] hl = HL_COMMON_TYPES -> 32
      [] hl = HL_STRING -> 35
      [] hl = HL_NUMBER -> 31
      [] hl = HL_MATCH -> 34
      [] OTHER -> 37

\* char sym = (c[j] <= 26) ? '@' + c[j] : '?'
ControlSym(c) == IF c <= 26 THEN 64 + c ELSE 63

\* the branch of editorDrawRows for a control character
DrawControl(ab, c, current_color) ==
    LET shown == abAppend(abAppend(abAppend(ab, ESC_INVERSE, 4), <<ControlSym(c)>>, 1),
                          ESC_RESET, 2)
    IN IF current_color # -1
       THEN abAppend(shown, ColorSequence(current_color), Len(ColorSequence(current_color)))
       ELSE shown

\* the last branch of the loop of editorDrawRows: a byte c with the colour
\* color
DrawColored(ab, c, color, current_color) ==
    abAppend(IF color # current_color
             THEN abAppend(ab, ColorSequence(color), Len(ColorSequence(color)))
             ELSE ab,
             <<c>>, 1)

\* the branch of editorDrawRows for a byte tagged HL_NORMAL
DrawNormal(ab, c, current_color) ==
    abAppend(IF current_color # -1 THEN abAppend(ab, ESC_DEFAULT_COLOR, 5) ELSE ab, <<c>>, 1)

RECURSIVE DrawRowLoop(_, _, _, _, _, _)
\* for (j = 0; j < len; j++) of editorDrawRows; c and hl start at E.colOff
DrawRowLoop(ab, c, hl, len, j, current_color) ==
    IF j >= len THEN ab
    ELSE IF iscntrl(c[j + 1])
         THEN DrawRowLoop(DrawControl(ab, c[j + 1], current_color), c, hl, len, j + 1,
                          current_color)
    ELSE IF hl[j + 1] = HL_NORMAL
         THEN DrawRowLoop(DrawNormal(ab, c[j + 1], current_color), c, hl, len, j + 1, -1)
    ELSE DrawRowLoop(DrawColored(ab, c[j + 1], editorSyntaxToColor(hl[j + 1]), current_color),
                     c, hl, len, j + 1, editorSyntaxToColor(hl[j + 1]))

\* int len = E.row[fileRow].rsize - E.colOff, kept between 0 and E.screenCols
DrawLen(EE, row) ==
    IF row.rsize - EE.colOff < 0 THEN 0
    ELSE IF row.rsize - EE.colOff > EE.screenCols THEN EE.screenCols
    ELSE row.rsize - EE.colOff

\* the else branch of editorDrawRows: a row of the text buffer
DrawTextRow(ab, EE, row) ==
    abAppend(DrawRowLoop(ab, SubSeq(row.render, EE.colOff + 1, row.rsize),
                         SubSeq(row.hl, EE.colOff + 1, row.rsize),
                         DrawLen(EE, row), 0, -1),
             ESC_DEFAULT_COLOR, 5)

CACTUS_VERSION == <<48, 46, 48, 46, 49>>

\* snprintf(welcome, sizeof(welcome), "Cactus -- version %s", CACTUS_VERSION)
Welcome ==
    <<67, 97, 99, 116, 117, 115, 32, 45, 45, 32, 118, 101, 114, 115, 105, 111, 110, 32>>
    \o CACTUS_VERSION

Spaces(n) == [k \in 1..n |-> CH_SPACE]

\* the welcome message, centred, of editorDrawRows
DrawWelcome(ab, EE) ==
    LET welcomeLen == IF Len(Welcome) > EE.screenCols THEN EE.screenCols ELSE Len(Welcome)
        padding == (EE.screenCols - welcomeLen) \div 2
    IN abAppend(IF padding # 0 THEN abAppend(ab, <<126>>, 1) \o Spaces(padding - 1) ELSE ab,
                Welcome, welcomeLen)

RECURSIVE DrawRowsLoop(_, _, _)
\* for (y = 0; y < E.screenRows; y++) of editorDrawRows
DrawRowsLoop(ab, EE, y) ==
    IF y >= EE.screenRows THEN ab
    ELSE DrawRowsLoop(
             abAppend(abAppend(
                 IF y + EE.rowOff >= EE.numRows
                 THEN IF EE.numRows = 0 /\ y = EE.screenRows \div 3
                      THEN DrawWelcome(ab, EE)
                      ELSE abAppend(ab, <<126>>, 1)
                 ELSE DrawTextRow(ab, EE, EE.row[y + EE.rowOff + 1]),
                 ESC_CLEAR_LINE, 3), CRLF, 2),
             EE, y + 1)

editorDrawRows(ab, EE) == DrawRowsLoop(ab, EE, 0)

\* the bytes of a file name
NameBytes(filename) ==
    CASE filename = "main.c" -> <<109, 97, 105, 110, 46, 99>>
      [] filename = "notes.txt" -> <<110, 111, 116, 101, 115, 46, 116, 120, 116>>
      [] OTHER -> CHOOSE b \in SeqsUpTo(NameChars, MaxName) : NameOf(b) = filename

\* snprintf(status, sizeof(status), "%.20s - %d lines %s", ...)
StatusLeft(EE) ==
    Truncate(Truncate(IF EE.filename # NULL THEN NameBytes(EE.filename)
                      ELSE <<91, 78, 111, 32, 78, 97, 109, 101, 93>>, 20)
             \o <<32, 45, 32>> \o Decimal(EE.numRows) \o <<32, 108, 105, 110, 101, 115, 32>>
             \o (IF EE.dirty # 0 THEN <<40, 109, 111, 100, 105, 102, 105, 101, 100, 41>>
                 ELSE <<>>),
             79)

\* snprintf(rstatus, sizeof(rstatus), "%s | %d/%d", ...)
StatusRight(EE) ==
    (IF EE.syntax # NULL THEN <<99>> ELSE <<110, 111, 32, 102, 116>>)
    \o <<32, 124, 32>> \o Decimal(EE.cy + 1) \o <<47>> \o Decimal(EE.numRows)

RECURSIVE StatusPad(_, _, _, _)
\* while (len < E.screenCols) of editorDrawStatusBar
StatusPad(ab, EE, len, rstatus) ==
    IF len >= EE.screenCols THEN ab
    ELSE IF EE.screenCols - len = Len(rstatus) THEN abAppend(ab, rstatus, Len(rstatus))
    ELSE StatusPad(abAppend(ab, <<CH_SPACE>>, 1), EE, len + 1, rstatus)

\* editorDrawStatusBar once status and rstatus are formatted
StatusBar(ab, EE, status, len) ==
    abAppend(abAppend(StatusPad(abAppend(abAppend(ab, ESC_INVERSE, 4), status, len),
                                EE, len, StatusRight(EE)),
                      ESC_RESET, 3),
             CRLF, 2)

\* if(len > E.screenCols) len = E.screenCols
ClipLen(s, cols) == IF Len(s) > cols THEN cols ELSE Len(s)

editorDrawStatusBar(ab, EE) ==
    StatusBar(ab, EE, StatusLeft(EE), ClipLen(StatusLeft(EE), EE.screenCols))

\* what the format fmt prints for the values arg
FormatBytes(fmt, arg) ==
    CASE fmt = "" -> <<>>
      [] fmt = MsgHelp ->
           <<72, 69, 76, 80, 58, 32, 67, 116, 114, 108, 45, 83, 32, 61, 32, 115, 97,
             118, 101, 32, 124, 32, 67, 116, 114, 108, 45, 81, 32, 61, 32, 113, 117,
             105, 116, 32, 124, 32, 67, 116, 114, 108, 45, 70, 32, 61, 32, 102, 105,
             110, 100>>
      [] fmt = MsgSearch ->
           <<83, 101, 97, 114, 99, 104, 58, 32>>
           \o arg
           \o <<32, 40, 85, 115, 101, 32, 69, 83, 67, 47, 65, 114, 114, 111, 119, 115,
                47, 69, 110, 116, 101, 114, 41>>
      [] fmt = MsgSaveAs ->
           <<83, 97, 118, 101, 32, 97, 115, 58, 32>>
           \o arg
           \o <<32, 40, 69, 83, 67, 32, 116, 111, 32, 99, 97, 110, 99, 101, 108, 41>>
      [] fmt = MsgAborted ->
           <<83, 97, 118, 101, 32, 97, 98, 111, 114, 116, 101, 100>>
      [] fmt = MsgWritten ->
           Decimal(arg[1])
           \o <<32, 98, 121, 116, 101, 115, 32, 119, 114, 105, 116, 116, 101, 110, 32,
                116, 111, 32, 100, 105, 115, 107, 46>>
      [] fmt = MsgCantSave ->
           <<67, 97, 110, 39, 116, 32, 115, 97, 118, 101, 33, 32, 73, 47, 79, 32, 101,
             114, 114, 111, 114, 58, 32>>
           \o arg
      [] fmt = MsgWarning ->
           <<87, 65, 82, 78, 73, 78, 71, 33, 33, 33, 32, 70, 105, 108, 101, 32, 104,
             97, 115, 32, 117, 110, 115, 97, 118, 101, 100, 32, 99, 104, 97, 110, 103,
             101, 115, 46, 32, 80, 114, 101, 115, 115, 32, 67, 116, 114, 108, 45, 81,
             32>>
           \o Decimal(arg[1])
           \o <<32, 109, 111, 114, 101, 32, 116, 105, 109, 101, 115, 32, 116, 111, 32,
                113, 117, 105, 116, 46>>

\* the C string vsnprintf leaves in E.statusmsg, a char[80]
StatusMsgBytes(msg) == Truncate(FormatBytes(msg.fmt, msg.arg), 79)

\* editorDrawMessageBar for the message statusmsg; late says that
\* time(NULL) - E.statusmsg_time is 5 seconds or more
MessageBar(ab, statusmsg, msglen, late) ==
    IF msglen # 0 /\ ~late
    THEN abAppend(abAppend(ab, ESC_CLEAR_LINE, 3), statusmsg, msglen)
    ELSE abAppend(ab, ESC_CLEAR_LINE, 3)

editorDrawMessageBar(ab, EE, late) ==
    MessageBar(ab, StatusMsgBytes(EE.statusmsg),
               ClipLen(StatusMsgBytes(EE.statusmsg), EE.screenCols), late)

\* snprintf(buf, sizeof(buf), "\x1b[%d;%dH", ...)
CursorSequence(EE) ==
    <<CH_ESC, 91>> \o Decimal((EE.cy - EE.rowOff) + 1) \o <<59>>
    \o Decimal((EE.rx - EE.colOff) + 1) \o <<72>>

\* struct abuf ab of editorRefreshScreen when it reaches write(), editorScroll
\* having run
ComposeFrame(EE, late) ==
    abAppend(
        abAppend(
            editorDrawMessageBar(
                editorDrawStatusBar(
                    editorDrawRows(abAppend(abAppend(<<>>, ESC_HIDE_CURSOR, 6), ESC_HOME, 3),
                                   EE),
                    EE),
                EE, late),
            CursorSequence(EE), Len(CursorSequence(EE))),
        ESC_SHOW_CURSOR, 6)

\* a write of the first bytes of the buffer and then a write of the rest
WriteOut_InTwo(out, ab) == Append(Append(out, Truncate(ab, 9)), SubSeq(ab, 10, Len(ab)))

\* write(STDOUT_FILENO, ab.b, ab.len): one more write on the terminal
WriteOut(out, ab) == Append(out, ab)

WithinBounds(EE) ==
    /\ EE.numRows <= MaxRows
    /\ EE.dirty <= MaxDirty
    /\ \A k \in 1..EE.numRows : EE.row[k].size <= MaxLen

InitWith(files) ==
    /\ \E w \in Windows : E = initEditor(w[1], w[2])
    /\ pc = "open"
    /\ prompt = "none"
    /\ buf = <<>>
    /\ findStatic = [lastMatch |-> -1, direction |-> 1, saved_hl_line |-> 0, saved_hl |-> <<>>]
    /\ findSaved = NoLocals
    /\ argv \in files
    /\ disk = argv.bytes
    /\ quitTimes = CACTUS_QUIT_TIMES
    /\ atStart = NoSession
    /\ nSaves = 0
    /\ tty = <<>>

Init == InitWith(EditFiles)

InitLoad == InitWith(LoadFiles)

\* main(): if(argc >= 2) editorOpen(argv[1])
MainOpen ==
    /\ pc = "open"
    /\ argv.filename # NULL
    /\ E' = editorSetStatusMessage(editorOpen(E, argv.filename, disk), MsgHelp, <<>>)
    /\ pc' = "refresh"
    /\ UNCHANGED <<prompt, buf, findStatic, findSaved, argv, disk, quitTimes, atStart, nSaves, tty>>

MainNoFile ==
    /\ pc = "open"
    /\ argv.filename = NULL
    /\ E' = editorSetStatusMessage(E, MsgHelp, <<>>)
    /\ pc' = "refresh"
    /\ UNCHANGED <<prompt, buf, findStatic, findSaved, argv, disk, quitTimes, atStart, nSaves, tty>>

\* editorRefreshScreen(), called by main() and by editorPrompt(), when the
\* status message is less than 5 seconds old
RefreshScreen ==
    /\ pc = "refresh"
    /\ E' = editorScroll(E)
    /\ pc' = "key"
    /\ tty' = WriteOut(tty, ComposeFrame(E', FALSE))
    /\ UNCHANGED <<prompt, buf, findStatic, findSaved, argv, disk, quitTimes, atStart, nSaves>>

\* editorRefreshScreen() when the status message is 5 seconds old or older
RefreshScreenLate ==
    /\ pc = "refresh"
    /\ E' = editorScroll(E)
    /\ pc' = "key"
    /\ tty' = WriteOut(tty, ComposeFrame(E', TRUE))
    /\ UNCHANGED <<prompt, buf, findStatic, findSaved, argv, disk, quitTimes, atStart, nSaves>>

\* editorProcessKeypress() reading the key c
Keypress(c) ==
    /\ pc = "key"
    /\ prompt = "none"
    /\ E' = editorProcessKeypress(E, c)
    /\ WithinBounds(E')
    /\ quitTimes' = CACTUS_QUIT_TIMES
    /\ pc' = "refresh"
    /\ UNCHANGED <<prompt, buf, findStatic, findSaved, argv, disk, atStart, nSaves>>
    /\ tty' = <<>>

KeyInsertChar == \E c \in TypedChars : Keypress(c)

KeyEnter == Keypress(CH_CR)

KeyBackspace == \E c \in {BACKSPACE, CTRL_KEY(104)} : Keypress(c)

KeyDelete == Keypress(DEL_KEY)

KeyArrow == \E c \in {ARROW_UP, ARROW_DOWN, ARROW_LEFT, ARROW_RIGHT} : Keypress(c)

KeyHomeEnd == \E c \in {HOME_KEY, END_KEY} : Keypress(c)

KeyPage == \E c \in {PAGE_UP, PAGE_DOWN} : Keypress(c)

KeyIgnored == \E c \in {CTRL_KEY(108), CH_ESC} : Keypress(c)

\* Ctrl-F: editorFind() up to the first refresh of its prompt
KeyFind ==
    /\ pc = "key"
    /\ prompt = "none"
    /\ findSaved' = [cx |-> E.cx, cy |-> E.cy, coloff |-> E.colOff, rowoff |-> E.rowOff]
    /\ atStart' = [cx |-> E.cx, cy |-> E.cy, colOff |-> E.colOff, rowOff |-> E.rowOff,
                   hl |-> [k \in 1..E.numRows |-> E.row[k].hl]]
    /\ prompt' = "find"
    /\ buf' = <<>>
    /\ E' = editorSetStatusMessage(E, MsgSearch, <<>>)
    /\ pc' = "refresh"
    /\ UNCHANGED <<findStatic, argv, disk, quitTimes, nSaves>>
    /\ tty' = <<>>

\* editorPrompt() reading a key that neither confirms nor cancels
PromptStep(c, newbuf) ==
    LET r == editorFindCallback(E, findStatic, newbuf, c)
    IN /\ pc = "key"
       /\ prompt = "find"
       /\ buf' = newbuf
       /\ E' = editorSetStatusMessage(r.E, MsgSearch, newbuf)
       /\ findStatic' = r.S
       /\ pc' = "refresh"
       /\ UNCHANGED <<prompt, findSaved, argv, disk, quitTimes, atStart, nSaves>>
    /\ tty' = <<>>

PromptBackspace ==
    \E c \in {DEL_KEY, CTRL_KEY(104), BACKSPACE} :
        PromptStep(c, IF Len(buf) # 0 THEN SubSeq(buf, 1, Len(buf) - 1) ELSE buf)

PromptChar ==
    \E c \in QueryChars :
        /\ Len(buf) < MaxQuery
        /\ PromptStep(c, Append(buf, c))

PromptOther ==
    \E c \in {ARROW_UP, ARROW_DOWN, ARROW_LEFT, ARROW_RIGHT, HOME_KEY, CTRL_KEY(108)} :
        PromptStep(c, buf)

\* Enter on an empty buffer ending the prompt as Enter on a query does
PromptEnterEmpty_Ends ==
    LET r == editorFindCallback(E, findStatic, buf, CH_CR)
    IN /\ pc = "key"
       /\ prompt = "find"
       /\ Len(buf) = 0
       /\ E' = editorSetStatusMessage(r.E, "", <<>>)
       /\ findStatic' = r.S
       /\ prompt' = "none"
       /\ buf' = <<>>
       /\ findSaved' = NoLocals
       /\ atStart' = NoSession
       /\ quitTimes' = CACTUS_QUIT_TIMES
       /\ pc' = "refresh"
       /\ UNCHANGED <<argv, disk, nSaves>>
    /\ tty' = <<>>

\* Enter on an empty buffer falls through to the callback and keeps prompting
PromptEnterEmpty ==
    /\ Len(buf) = 0
    /\ PromptStep(CH_CR, buf)

\* Enter on a non-empty buffer: editorPrompt returns buf, editorFind frees it
PromptEnter ==
    LET r == editorFindCallback(E, findStatic, buf, CH_CR)
    IN /\ pc = "key"
       /\ prompt = "find"
       /\ Len(buf) # 0
       /\ E' = editorSetStatusMessage(r.E, "", <<>>)
       /\ findStatic' = r.S
       /\ prompt' = "none"
       /\ buf' = <<>>
       /\ findSaved' = NoLocals
       /\ atStart' = NoSession
       /\ quitTimes' = CACTUS_QUIT_TIMES
       /\ pc' = "refresh"
       /\ UNCHANGED <<argv, disk, nSaves>>
    /\ tty' = <<>>

\* Escape leaving the cursor and the viewport where the search put them
PromptEscape_KeepCursor ==
    LET r == editorFindCallback(E, findStatic, buf, CH_ESC)
    IN /\ pc = "key"
       /\ prompt = "find"
       /\ E' = editorSetStatusMessage(r.E, "", <<>>)
       /\ findStatic' = r.S
       /\ prompt' = "none"
       /\ buf' = <<>>
       /\ findSaved' = NoLocals
       /\ atStart' = NoSession
       /\ quitTimes' = CACTUS_QUIT_TIMES
       /\ pc' = "refresh"
       /\ UNCHANGED <<argv, disk, nSaves>>
    /\ tty' = <<>>

\* Escape: editorPrompt returns NULL, editorFind restores the cursor
PromptEscape ==
    LET r == editorFindCallback(E, findStatic, buf, CH_ESC)
    IN /\ pc = "key"
       /\ prompt = "find"
       /\ E' = [editorSetStatusMessage(r.E, "", <<>>)
                   EXCEPT !.cx = findSaved.cx, !.cy = findSaved.cy,
                          !.colOff = findSaved.coloff, !.rowOff = findSaved.rowoff]
       /\ findStatic' = r.S
       /\ prompt' = "none"
       /\ buf' = <<>>
       /\ findSaved' = NoLocals
       /\ atStart' = NoSession
       /\ quitTimes' = CACTUS_QUIT_TIMES
       /\ pc' = "refresh"
       /\ UNCHANGED <<argv, disk, nSaves>>
    /\ tty' = <<>>

\* editorSave() from the call of editorRowsToString on, EE being E with its
\* file name: open, ftruncate or write may fail
SaveWrite(EE) ==
    LET out == editorRowsToString(EE)
        resized == [k \in 1..Len(out) |-> IF k <= Len(disk) THEN disk[k] ELSE CH_NUL]
    IN /\ nSaves < MaxSaves
       /\ nSaves' = nSaves + 1
       /\ \/ /\ disk' = out
             /\ E' = editorSetStatusMessage([EE EXCEPT !.dirty = 0], MsgWritten, <<Len(out)>>)
          \/ /\ disk' \in {disk, resized}
             /\ E' = editorSetStatusMessage(EE, MsgCantSave, <<>>)

\* Ctrl-S with a filename
KeySave ==
    /\ pc = "key"
    /\ prompt = "none"
    /\ E.filename # NULL
    /\ SaveWrite(E)
    /\ quitTimes' = CACTUS_QUIT_TIMES
    /\ pc' = "refresh"
    /\ UNCHANGED <<prompt, buf, findStatic, findSaved, argv, atStart>>
    /\ tty' = <<>>

\* Ctrl-S without a filename: editorSave() up to the first refresh of its prompt
KeySaveAs ==
    /\ pc = "key"
    /\ prompt = "none"
    /\ E.filename = NULL
    /\ nSaves < MaxSaves
    /\ prompt' = "save"
    /\ buf' = <<>>
    /\ E' = editorSetStatusMessage(E, MsgSaveAs, <<>>)
    /\ pc' = "refresh"
    /\ UNCHANGED <<findStatic, findSaved, argv, disk, quitTimes, atStart, nSaves>>
    /\ tty' = <<>>

\* editorPrompt() without a callback reading a key that neither confirms nor
\* cancels
SavePromptStep(newbuf) ==
    /\ pc = "key"
    /\ prompt = "save"
    /\ buf' = newbuf
    /\ E' = editorSetStatusMessage(E, MsgSaveAs, newbuf)
    /\ pc' = "refresh"
    /\ UNCHANGED <<prompt, findStatic, findSaved, argv, disk, quitTimes, atStart, nSaves>>
    /\ tty' = <<>>

SavePromptBackspace ==
    SavePromptStep(IF Len(buf) # 0 THEN SubSeq(buf, 1, Len(buf) - 1) ELSE buf)

SavePromptChar ==
    \E c \in NameChars :
        /\ Len(buf) < MaxName
        /\ SavePromptStep(Append(buf, c))

\* an arrow key, or Enter on an empty buffer
SavePromptOther == SavePromptStep(buf)

\* Escape: editorPrompt returns NULL and editorSave gives up
SavePromptEscape ==
    /\ pc = "key"
    /\ prompt = "save"
    /\ E' = editorSetStatusMessage(E, MsgAborted, <<>>)
    /\ prompt' = "none"
    /\ buf' = <<>>
    /\ quitTimes' = CACTUS_QUIT_TIMES
    /\ pc' = "refresh"
    /\ UNCHANGED <<findStatic, findSaved, argv, disk, atStart, nSaves>>
    /\ tty' = <<>>

\* Enter on a non-empty buffer: the buffer becomes E.filename and editorSave
\* goes on
SavePromptEnter ==
    /\ pc = "key"
    /\ prompt = "save"
    /\ Len(buf) # 0
    /\ SaveWrite(editorSelectSyntaxHighlight([E EXCEPT !.filename = NameOf(buf)]))
    /\ prompt' = "none"
    /\ buf' = <<>>
    /\ quitTimes' = CACTUS_QUIT_TIMES
    /\ pc' = "refresh"
    /\ UNCHANGED <<findStatic, findSaved, argv, atStart>>
    /\ tty' = <<>>

\* Ctrl-Q that warns without counting down
QuitKey_NoCount(EE, qt) ==
    IF EE.dirty # 0 /\ qt > 0
    THEN [E |-> editorSetStatusMessage(EE, MsgWarning, <<qt>>), quitTimes |-> qt,
          exit |-> FALSE]
    ELSE [E |-> EE, quitTimes |-> qt, exit |-> TRUE]

\* case CTRL_KEY('q') of editorProcessKeypress, qt being quitTimes
QuitKey(EE, qt) ==
    IF EE.dirty # 0 /\ qt > 0
    THEN [E |-> editorSetStatusMessage(EE, MsgWarning, <<qt>>), quitTimes |-> qt - 1,
          exit |-> FALSE]
    ELSE [E |-> EE, quitTimes |-> qt, exit |-> TRUE]

\* Ctrl-Q
KeyQuit ==
    /\ pc = "key"
    /\ prompt = "none"
    /\ E' = QuitKey(E, quitTimes).E
    /\ quitTimes' = QuitKey(E, quitTimes).quitTimes
    /\ pc' = IF QuitKey(E, quitTimes).exit THEN "exit" ELSE "refresh"
    /\ UNCHANGED <<prompt, buf, findStatic, findSaved, argv, disk, atStart, nSaves>>
    /\ tty' = IF QuitKey(E, quitTimes).exit
             THEN WriteOut(WriteOut(<<>>, <<CH_ESC, 91, 50, 74>>), ESC_HOME)
             ELSE <<>>

Next ==
    \/ MainOpen
    \/ MainNoFile
    \/ RefreshScreen
    \/ KeyInsertChar
    \/ KeyEnter
    \/ KeyBackspace
    \/ KeyDelete
    \/ KeyArrow
    \/ KeyHomeEnd
    \/ KeyPage
    \/ KeyIgnored
    \/ KeyFind
    \/ PromptBackspace
    \/ PromptChar
    \/ PromptOther
    \/ PromptEnterEmpty
    \/ PromptEnter
    \/ PromptEscape

Spec == Init /\ [][Next]_vars

\* files given to the runs that start from little text: no file, or a C
\* file whose one row is a tab and a slash
KeysFiles ==
    { [filename |-> NULL, bytes |-> <<>>],
      [filename |-> "main.c", bytes |-> <<CH_DOT, CH_LF, CH_TAB, CH_SLASH, CH_LF>>] }

SpecKeys == InitWith(KeysFiles) /\ [][Next]_vars

NextLoad ==
    \/ MainOpen
    \/ RefreshScreen
    \/ KeySave

SpecLoad == InitLoad /\ [][NextLoad]_vars

\* bytes of the rows given to the runs that highlight: i f n t 1 " space
SyntaxBytes == {105, 102, 110, 116, 49, CH_DQUOTE, CH_SPACE}

\* C files of two lines, the second being the row to highlight
SyntaxFiles ==
    { [filename |-> "main.c", bytes |-> <<CH_DOT, CH_LF>> \o s \o <<CH_LF>>] :
          s \in SeqsUpTo(SyntaxBytes, MaxLen) }

NextSyntax ==
    \/ MainOpen
    \/ RefreshScreen
    \/ KeyHomeEnd

SpecSyntax == InitWith(SyntaxFiles) /\ [][NextSyntax]_vars

\* the runs that edit and move and never search
NextEdit ==
    \/ MainOpen
    \/ MainNoFile
    \/ RefreshScreen
    \/ KeyInsertChar
    \/ KeyEnter
    \/ KeyBackspace
    \/ KeyDelete
    \/ KeyArrow
    \/ KeyHomeEnd
    \/ KeyPage

SpecEdit == Init /\ [][NextEdit]_vars

\* the runs that search: cursor keys, Enter, and the search prompt
NextFind ==
    \/ MainOpen
    \/ MainNoFile
    \/ RefreshScreen
    \/ KeyEnter
    \/ KeyArrow
    \/ KeyFind
    \/ PromptBackspace
    \/ PromptChar
    \/ PromptOther
    \/ PromptEnterEmpty
    \/ PromptEnter
    \/ PromptEscape

SpecFind == Init /\ [][NextFind]_vars

\* files given to the runs that save and quit
SaveFiles ==
    { [filename |-> NULL, bytes |-> <<>>],
      [filename |-> "notes.txt", bytes |-> <<CH_DQUOTE, CH_LF>>] }

KeyInsertQuote == Keypress(CH_DQUOTE)

NextFile ==
    \/ MainOpen
    \/ MainNoFile
    \/ RefreshScreen
    \/ KeyInsertQuote
    \/ KeyEnter
    \/ KeyBackspace
    \/ KeySave
    \/ KeySaveAs
    \/ SavePromptBackspace
    \/ SavePromptChar
    \/ SavePromptOther
    \/ SavePromptEscape
    \/ SavePromptEnter
    \/ KeyQuit

SpecFile == InitWith(SaveFiles) /\ [][NextFile]_vars

\* bytes of the rows given to the runs that render
RenderBytes == {CH_TAB, CH_STAR, CH_SPACE}

\* files of two lines, the second being the row to render
RenderFiles ==
    { [filename |-> "notes.txt", bytes |-> <<CH_DOT, CH_LF>> \o s \o <<CH_LF>>] :
          s \in SeqsUpTo(RenderBytes, MaxLen) }

KeyInsertTab == Keypress(CH_TAB)

NextRender ==
    \/ MainOpen
    \/ RefreshScreen
    \/ KeyInsertChar
    \/ KeyInsertTab
    \/ KeyArrow

SpecRender == InitWith(RenderFiles) /\ [][NextRender]_vars

\* the runs that load such a row and send the cursor to its ends
SpecColumns == InitWith(RenderFiles) /\ [][NextSyntax]_vars

\* bytes of the files given to the runs that watch the terminal: Ctrl-A, DEL
\* and the double quote
FrameBytes == {CTRL_KEY(97), 127, CH_DQUOTE}

\* no file, or a C file of two lines, the second being the row on the screen
FrameFiles ==
    { [filename |-> NULL, bytes |-> <<>>] }
    \cup { [filename |-> "main.c", bytes |-> <<CH_DOT, CH_LF>> \o s \o <<CH_LF>>] :
               s \in SeqsUpTo(FrameBytes, MaxLen - 1) }

\* the windows of these runs: the narrow one, and one wide enough for the
\* welcome message and both halves of the status bar
FrameWindows == {<<4, 3>>, <<5, 40>>}

InitFrame ==
    /\ \E w \in FrameWindows : E = initEditor(w[1], w[2])
    /\ pc = "open"
    /\ prompt = "none"
    /\ buf = <<>>
    /\ findStatic = [lastMatch |-> -1, direction |-> 1, saved_hl_line |-> 0, saved_hl |-> <<>>]
    /\ findSaved = NoLocals
    /\ argv \in FrameFiles
    /\ disk = argv.bytes
    /\ quitTimes = CACTUS_QUIT_TIMES
    /\ atStart = NoSession
    /\ nSaves = 0
    /\ tty = <<>>

NextFrame ==
    \/ MainOpen
    \/ MainNoFile
    \/ RefreshScreen
    \/ RefreshScreenLate
    \/ KeyInsertChar
    \/ KeyHomeEnd
    \/ KeyQuit

SpecFrame == InitFrame /\ [][NextFrame]_vars

\* ------------------------------------------------------------------------
\* What the properties below speak of
\* ------------------------------------------------------------------------
\* every '\r' of the file is the first byte of a "\r\n"
OnlyLfOrCrLf(bytes) ==
    \A k \in 1..Len(bytes) :
        bytes[k] = CH_CR => (k < Len(bytes) /\ bytes[k + 1] = CH_LF)

\* the file with "\r\n" turned into "\n" and a final "\n" added when missing
NormalizedBytes(bytes) ==
    LET noCr == SelectSeq(bytes, LAMBDA b : b # CH_CR)
    IN IF noCr # <<>> /\ noCr[Len(noCr)] # CH_LF THEN Append(noCr, CH_LF) ELSE noCr

RECURSIVE LinesOf(_)
\* the lines of a file, each without its "\n" or "\r\n"
LinesOf(bytes) ==
    LET nls == {k \in 1..Len(bytes) : bytes[k] = CH_LF}
        n == IF nls = {} THEN Len(bytes) + 1 ELSE CHOOSE k \in nls : \A m \in nls : k <= m
        cr == IF n <= Len(bytes) /\ n > 1 /\ bytes[n - 1] = CH_CR THEN 1 ELSE 0
    IN IF bytes = <<>> THEN <<>>
       ELSE <<SubSeq(bytes, 1, n - 1 - cr)>> \o LinesOf(SubSeq(bytes, n + 1, Len(bytes)))

\* the raw bytes of the rows, in order
RawRows(EE) == [k \in 1..EE.numRows |-> SubSeq(EE.row[k].chars, 1, EE.row[k].size)]

RECURSIVE TrueScan(_, _)
\* the scan of row i (from 0) when every row above it has been scanned afresh,
\* from row 0 downward
TrueScan(EE, i) ==
    SyntaxScan(EE.row[i + 1].render, [k \in 1..EE.row[i + 1].rsize |-> HL_NORMAL], 0, 1, 0,
               IF i = 0 THEN 0 ELSE TrueScan(EE, i - 1).in_comment)

\* the viewport offset that shows pos, moved no more than needed
SnapTo(pos, off, size) ==
    IF pos < off THEN pos ELSE IF pos >= off + size THEN pos - size + 1 ELSE off

\* ------------------------------------------------------------------------
\* Properties
\* ------------------------------------------------------------------------
\* C1: a file whose lines end only in "\n" or "\r\n", once loaded by
\* editorOpen, is serialized by editorRowsToString to its own bytes with the
\* terminators normalized to "\n" and a final newline present.
C1_RoundTrip ==
    (pc # "open" /\ OnlyLfOrCrLf(argv.bytes))
        => editorRowsToString(E) = NormalizedBytes(argv.bytes)

\* C2: after editorOpen on a file of n lines there are n rows, and row i holds
\* line i of the file without its terminator.
C2_LoadRows ==
    pc # "open" => /\ E.numRows = Len(LinesOf(argv.bytes))
                   /\ RawRows(E) = LinesOf(argv.bytes)

\* C3: with a syntax active, every row's hl_open_comment says whether the end of
\* the row lies in an unterminated block comment, and outside a search every
\* row's highlight is the one a fresh pass from row 0 downward gives.
C3_CommentStateConsistent ==
    E.syntax # NULL =>
        \A i \in 0..(E.numRows - 1) :
            /\ E.row[i + 1].hl_open_comment = TrueScan(E, i).in_comment
            /\ prompt = "none" => E.row[i + 1].hl = TrueScan(E, i).hl

\* C4: below a row that ends inside a block comment, every byte of every row
\* is tagged block-comment up to and including the first end delimiter, or to
\* the end of the buffer when there is none.
C4_BlockCommentPropagation ==
    (E.syntax # NULL /\ prompt = "none") =>
        \A j \in 1..(E.numRows - 1) :
            TrueScan(E, j - 1).in_comment = 1 =>
                LET m == strstr(E.row[j + 1].render, HLDB.multiline_comment_end)
                    upto == IF m = -1 THEN E.row[j + 1].rsize
                            ELSE m + Len(HLDB.multiline_comment_end)
                IN \A k \in 1..upto : E.row[j + 1].hl[k] = HL_MULTI_LINE_COMMENT

\* C5: every row has exactly as many highlight tags as render bytes.
C5_HighlightLength ==
    \A k \in 1..E.numRows :
        /\ Len(E.row[k].hl) = E.row[k].rsize
        /\ Len(E.row[k].render) = E.row[k].rsize

\* a search has overlaid a match in an edited buffer that holds a tab
C5_Witness ==
    /\ prompt = "find"
    /\ findStatic.saved_hl # <<>>
    /\ E.dirty > 0
    /\ \E k \in 1..E.numRows : E.row[k].rsize > E.row[k].size

\* every row's idx is its position
RowIdxOk(EE) == \A i \in 0..(EE.numRows - 1) : EE.row[i + 1].idx = i

C7_ScrollGuarantee ==
    pc = "key" =>
        /\ E.rowOff <= E.cy
        /\ E.cy < E.rowOff + E.screenRows
        /\ E.colOff <= E.rx
        /\ E.rx < E.colOff + E.screenCols

\* the frame after a search match on a row below the first has been scrolled
C7_Witness ==
    /\ pc = "key"
    /\ prompt = "find"
    /\ findStatic.lastMatch = E.cy
    /\ E.cy > 0
    /\ E.rowOff = E.cy

\* C8: editorScroll moves rowOff to cy when cy is above the viewport, to
\* cy - screenRows + 1 when it is below, and leaves it alone otherwise; colOff
\* follows rx and screenCols the same way.
C8_ViewportSnap ==
    [][pc = "refresh" =>
          /\ E'.rowOff = SnapTo(E.cy, E.rowOff, E.screenRows)
          /\ E'.colOff = SnapTo(E'.rx, E.colOff, E.screenCols)]_vars

\* the viewport has scrolled down to a cursor past the last row
C8_Witness ==
    /\ pc = "key"
    /\ E.cy = E.numRows
    /\ E.rowOff > 0
    /\ E.rowOff = E.cy - E.screenRows + 1

\* C9: Backspace at the start of a row below the first appends the row to the
\* one above, removes it, and leaves the cursor on the row above at its former
\* length.
C9_BackspaceJoin ==
    (pc = "key" /\ prompt = "none" /\ E.cx = 0 /\ E.cy > 0 /\ E.cy < E.numRows) =>
        LET R == editorProcessKeypress(E, BACKSPACE)
            old == RawRows(E)
        IN /\ R.numRows = E.numRows - 1
           /\ RawRows(R) = SubSeq(old, 1, E.cy - 1)
                             \o <<old[E.cy] \o old[E.cy + 1]>>
                             \o SubSeq(old, E.cy + 2, E.numRows)
           /\ R.cy = E.cy - 1
           /\ R.cx = Len(old[E.cy])

\* the two rows of the loaded file have been joined
C9_Witness ==
    /\ argv.filename = "main.c"
    /\ E.dirty = 2
    /\ E.numRows = 1
    /\ E.cy = 0
    /\ E.cx = 3
    /\ RawRows(E) = << <<CH_SLASH, CH_SLASH, CH_STAR, CH_SLASH>> >>

\* C10: on an existing row, typing a byte and then pressing Backspace gives
\* back the raw rows, the row count and the cursor.
C10_InsertDeleteSymmetry ==
    (pc = "key" /\ prompt = "none" /\ E.cy < E.numRows /\ E.cx <= E.row[E.cy + 1].size) =>
        \A c \in TypedChars :
            LET R == editorProcessKeypress(editorScroll(editorProcessKeypress(E, c)),
                                           BACKSPACE)
            IN /\ RawRows(R) = RawRows(E)
               /\ R.numRows = E.numRows
               /\ R.cx = E.cx
               /\ R.cy = E.cy

\* a byte has been typed into the loaded file and deleted again
C10_Witness ==
    /\ argv.filename = "main.c"
    /\ pc = "key"
    /\ E.dirty = 2
    /\ E.cx > 0
    /\ RawRows(E) = << <<CH_SLASH, CH_SLASH, CH_STAR>>, <<CH_SLASH>> >>

\* ------------------------------------------------------------------------
\* Search
\* ------------------------------------------------------------------------
\* a key is about to be read by the search prompt
InSearch == pc = "key" /\ prompt = "find"

ArrowKeys == {ARROW_LEFT, ARROW_RIGHT, ARROW_UP, ARROW_DOWN}

\* the keys the search prompt passes to its callback without leaving
SearchKeys == ArrowKeys \cup QueryChars \cup {BACKSPACE, DEL_KEY, HOME_KEY, CTRL_KEY(108)}

\* the query after the prompt has handled the key
QueryAfter(q, key) ==
    IF key \in QueryChars THEN Append(q, key)
    ELSE IF key \in {BACKSPACE, DEL_KEY} /\ Len(q) # 0 THEN SubSeq(q, 1, Len(q) - 1)
    ELSE q

\* the n rows in circular order, one step in direction d past row last
ScanOrder(n, last, d) == [k \in 1..n |-> (last + d * k) % n]

\* the first row of order whose render text contains q, -1 when none does
FirstHit(EE, q, order) ==
    LET hits == {k \in 1..Len(order) : strstr(EE.row[order[k] + 1].render, q) # -1}
    IN IF hits = {} THEN -1 ELSE order[CHOOSE k \in hits : \A m \in hits : k <= m]

\* the rows that carry a search-match tag
MatchRows(EE) ==
    {k \in 1..EE.numRows : \E i \in 1..Len(EE.row[k].hl) : EE.row[k].hl[i] = HL_MATCH}

\* C11: a search step looks at the rows in circular order starting one step in
\* the current direction past the last match row, each row once, and stops at
\* the first row whose render text contains the query.
C11_CircularScan ==
    InSearch =>
        \A key \in ArrowKeys :
            LET d == FindKey(findStatic, key).direction
                hit == FirstHit(E, buf, ScanOrder(E.numRows, findStatic.lastMatch, d))
                r == editorFindCallback(E, findStatic, buf, key)
            IN IF hit = -1
               THEN /\ r.S.lastMatch = findStatic.lastMatch
                    /\ r.S.saved_hl = <<>>
                    /\ r.E.cy = E.cy
                    /\ r.E.cx = E.cx
               ELSE /\ r.S.lastMatch = hit
                    /\ r.S.saved_hl # <<>>
                    /\ r.E.cy = hit
                    /\ r.E.cx = editorRowRxToCx(E.row[hit + 1],
                                                strstr(E.row[hit + 1].render, buf))

\* a backward step from row 1 has passed row 0, which holds no match, and
\* wrapped to the last of three rows
C11_Witness ==
    /\ prompt = "find"
    /\ buf # <<>>
    /\ E.numRows = 3
    /\ findStatic.direction = -1
    /\ findStatic.lastMatch = 2
    /\ E.cy = 2
    /\ strstr(E.row[1].render, buf) = -1
    /\ strstr(E.row[2].render, buf) # -1

\* the keys of a search session decide where the scan starts and which way it
\* goes; back is the direction Arrow-Left and Arrow-Up give when no row has
\* matched yet
DirectionControl(back) ==
    InSearch =>
        \A key \in SearchKeys :
            LET last == IF key \in ArrowKeys THEN findStatic.lastMatch ELSE -1
                d == IF key \in {ARROW_LEFT, ARROW_UP}
                     THEN (IF findStatic.lastMatch = -1 THEN back ELSE -1)
                     ELSE 1
                hit == FirstHit(E, QueryAfter(buf, key), ScanOrder(E.numRows, last, d))
                r == editorFindCallback(E, findStatic, QueryAfter(buf, key), key)
            IN /\ r.S.direction = d
               /\ r.S.lastMatch = IF hit = -1 THEN last ELSE hit

\* C12 as stated: Arrow-Right/Down set the direction to +1 and Arrow-Left/Up to
\* -1, the scan starting from the last match row; any other key forgets the
\* last match and scans forward from row 0.
C12_DirectionAsStated == DirectionControl(-1)

\* C12: as above, except that Arrow-Left/Up with no last match leave the
\* direction +1 and the scan starts forward from row 0.
C12_DirectionControl == DirectionControl(1)

\* a backward step has been taken from a match
C12_Witness ==
    /\ prompt = "find"
    /\ findStatic.direction = -1
    /\ findStatic.lastMatch = 0
    /\ E.numRows >= 2
    /\ E.cy = 0

\* C13: during a search at most one row carries search-match tags and every
\* other row's highlight is the one it had when the search began; once the
\* search has ended no row carries such a tag and every row's highlight is the
\* one it had when the search began.
C13_OverlayDiscipline ==
    [][/\ prompt' = "find" =>
              /\ Cardinality(MatchRows(E')) <= 1
              /\ \A k \in 1..E'.numRows :
                     k \notin MatchRows(E') => E'.row[k].hl = atStart'.hl[k]
       /\ prompt' = "none" => MatchRows(E') = {}
       /\ (prompt = "find" /\ prompt' = "none") =>
              \A k \in 1..E'.numRows : E'.row[k].hl = atStart.hl[k]]_vars

\* the match tags lie on a row of comment, the second row the search visited
C13_Witness ==
    /\ prompt = "find"
    /\ findStatic.lastMatch = 1
    /\ MatchRows(E) = {2}
    /\ \E i \in 1..Len(atStart.hl[2]) : atStart.hl[2][i] = HL_MULTI_LINE_COMMENT

\* C14: Escape puts cx, cy, colOff and rowOff back to what they were when the
\* search began; a search key that finds a match puts the cursor on it, one
\* that finds none leaves the cursor alone, and so does Enter.
C14_SearchExit ==
    [][/\ PromptEscape =>
              /\ E'.cx = atStart.cx
              /\ E'.cy = atStart.cy
              /\ E'.colOff = atStart.colOff
              /\ E'.rowOff = atStart.rowOff
       /\ PromptEnter => (E'.cx = E.cx /\ E'.cy = E.cy)
       /\ (InSearch /\ prompt' = "find") =>
              IF findStatic'.saved_hl # <<>>
              THEN /\ E'.cy = findStatic'.lastMatch
                   /\ E'.cx = editorRowRxToCx(E.row[E'.cy + 1],
                                              strstr(E.row[E'.cy + 1].render, buf'))
              ELSE E'.cx = E.cx /\ E'.cy = E.cy]_vars

\* a search has taken the cursor and the viewport away from where it began
C14_Witness ==
    /\ InSearch
    /\ buf # <<>>
    /\ findStatic.lastMatch = E.cy
    /\ E.cy # atStart.cy
    /\ E.cx # atStart.cx
    /\ E.rowOff # atStart.rowOff

\* ------------------------------------------------------------------------
\* Quit, save, dirty counter
\* ------------------------------------------------------------------------
\* Ctrl-Q pressed n times in a row from EE with the counter at qt, a frame
\* drawn between the presses: the outcome of the last press
RECURSIVE QuitPresses(_, _, _)
QuitPresses(EE, qt, n) ==
    IF n = 1 THEN QuitKey(EE, qt)
    ELSE QuitKey(editorScroll(QuitPresses(EE, qt, n - 1).E),
                 QuitPresses(EE, qt, n - 1).quitTimes)

\* a key handled by editorProcessKeypress has been handled and it was not Ctrl-Q
OtherKeyDone ==
    /\ pc = "key"
    /\ pc' = "refresh"
    /\ prompt' = "none"
    /\ ~KeyQuit

\* C15: with unsaved changes the first three Ctrl-Q presses in a row only show
\* the warning, with the counter 3, 2, 1, and the fourth exits; any other key
\* puts the counter back to 3; without unsaved changes one Ctrl-Q exits.
C15_QuitGate ==
    [][/\ OtherKeyDone => quitTimes' = CACTUS_QUIT_TIMES
       /\ (pc = "key" /\ prompt = "none" /\ quitTimes = CACTUS_QUIT_TIMES) =>
              IF E.dirty # 0
              THEN /\ \A n \in 1..CACTUS_QUIT_TIMES :
                          /\ ~QuitPresses(E, quitTimes, n).exit
                          /\ QuitPresses(E, quitTimes, n).E.statusmsg
                               = [fmt |-> MsgWarning, arg |-> <<CACTUS_QUIT_TIMES + 1 - n>>]
                          /\ RawRows(QuitPresses(E, quitTimes, n).E) = RawRows(E)
                          /\ QuitPresses(E, quitTimes, n).E.dirty = E.dirty
                   /\ QuitPresses(E, quitTimes, CACTUS_QUIT_TIMES + 1).exit
              ELSE QuitKey(E, quitTimes).exit
       /\ KeyQuit =>
              /\ pc' = IF QuitPresses(E, quitTimes, 1).exit THEN "exit" ELSE "refresh"
              /\ E' = QuitPresses(E, quitTimes, 1).E
              /\ quitTimes' = QuitPresses(E, quitTimes, 1).quitTimes]_vars

\* the fourth Ctrl-Q in a row has ended the process with changes unsaved
C15_Witness ==
    /\ pc = "exit"
    /\ E.dirty # 0
    /\ quitTimes = 0
    /\ E.statusmsg = [fmt |-> MsgWarning, arg |-> <<1>>]

\* a save has been attempted and the write did not go through
SaveFailed == (KeySave \/ SavePromptEnter) /\ E'.statusmsg.fmt = MsgCantSave

\* text, row count, cursor and dirty counter are as they were
TextIntact ==
    /\ E'.numRows = E.numRows
    /\ \A k \in 1..E.numRows : /\ E'.row[k].size = E.row[k].size
                               /\ E'.row[k].chars = E.row[k].chars
                               /\ E'.row[k].rsize = E.row[k].rsize
                               /\ E'.row[k].render = E.row[k].render
    /\ E'.cx = E.cx
    /\ E'.cy = E.cy
    /\ E'.dirty = E.dirty

HlIntact == \A k \in 1..E.numRows : E'.row[k].hl = E.row[k].hl

SaveOutcome(hlKept) ==
    /\ SaveFailed => /\ TextIntact
                     /\ hlKept
                     /\ pc' = "refresh"
    /\ SavePromptEscape => /\ TextIntact
                           /\ HlIntact
                           /\ E'.statusmsg.fmt = MsgAborted
                           /\ pc' = "refresh"
    /\ (E'.dirty = 0 /\ E.dirty # 0) => /\ KeySave \/ SavePromptEnter
                                        /\ disk' = editorRowsToString(E')
                                        /\ E'.statusmsg = [fmt |-> MsgWritten, arg |-> <<Len(disk')>>]

\* C16: a save that fails, or a Save-as that is cancelled, leaves the raw,
\* render and highlight contents of every row, the row count, the cursor and
\* the dirty counter as they were, sets an error or "Save aborted" message and
\* the editor goes on to the next key; dirty goes back to 0 only when the whole
\* buffer has been written.
C16_SaveFailureIntact == [][SaveOutcome(HlIntact)]_vars

\* the same with the highlight left out of what a failed Save-as keeps
C16_SaveFailureKeepsText == [][SaveOutcome(KeySave => HlIntact)]_vars

\* every Row Store operation, called in range on EE, raises the dirty counter
MutationsCount(EE) ==
    /\ \A at \in 0..EE.numRows : \A s \in {<<>>, <<CH_DQUOTE>>} :
           editorInsertRow(EE, at, s).dirty > EE.dirty
    /\ \A at \in 0..(EE.numRows - 1) :
           /\ editorDelRow(EE, at).dirty > EE.dirty
           /\ \A s \in {<<>>, <<CH_DQUOTE>>} :
                  editorRowAppendString(EE, at, s).dirty > EE.dirty
           /\ \A i \in 0..EE.row[at + 1].size :
                  editorRowInsertChar(EE, at, i, CH_DQUOTE).dirty > EE.dirty
           /\ \A i \in 0..(EE.row[at + 1].size - 1) :
                  editorRowDelChar(EE, at, i).dirty > EE.dirty

\* moving the cursor, scrolling and a search step on EE leave it alone
OthersDoNotCount(EE) ==
    /\ \A key \in ArrowKeys : editorMoveCursor(EE, key).dirty = EE.dirty
    /\ editorScroll(EE).dirty = EE.dirty
    /\ \A key \in ArrowKeys \cup {CH_DQUOTE, CH_CR, CH_ESC} :
           editorFindCallback(EE, [lastMatch |-> -1, direction |-> 1,
                                   saved_hl_line |-> 0, saved_hl |-> <<>>],
                              <<CH_DQUOTE>>, key).E.dirty = EE.dirty

SaveDone == (KeySave \/ SavePromptEnter) /\ E'.statusmsg.fmt = MsgWritten

\* C17: every Row Store mutation raises dirty; cursor movement, scrolling,
\* searching and failed saves leave it unchanged; it is 0 right after a load
\* and right after a successful save. The operations are applied to the
\* editor wherever a key is about to be handled. Step by step: a load or a successful
\* save ends with dirty = 0, and any other step raises dirty when it changes
\* the text and leaves it unchanged when it does not, so dirty = 0 exactly
\* when the text has not been changed since the last load or successful save.
C17_DirtyCounter ==
    /\ [](pc = "key" => MutationsCount(E) /\ OthersDoNotCount(E))
    /\ [][/\ (MainOpen \/ SaveDone) => E'.dirty = 0
          /\ ~(MainOpen \/ SaveDone) =>
                 IF RawRows(E') # RawRows(E) THEN E'.dirty > E.dirty
                 ELSE E'.dirty = E.dirty
          /\ (RefreshScreen \/ SaveFailed \/ SavePromptEscape) =>
                 E'.dirty = E.dirty]_vars

\* a buffer typed into from nothing has just been saved
C17_Witness ==
    /\ pc = "refresh"
    /\ argv.filename = NULL
    /\ E.statusmsg.fmt = MsgWritten
    /\ disk # <<>>
    /\ nSaves > 0
    /\ E.dirty = 0

\* ------------------------------------------------------------------------
\* Edges
\* ------------------------------------------------------------------------
\* row indices just outside the store
BadInsertAt(EE) == {-2, -1, EE.numRows + 1, EE.numRows + 2}

BadDelAt(EE) == {-2, -1, EE.numRows, EE.numRows + 1}

\* C18: editorInsertRow with at < 0 or at > numRows, and editorDelRow with
\* at < 0 or at >= numRows, leave the whole editor state as it was.
C18_OutOfRangeNoOp ==
    /\ \A at \in BadInsertAt(E) : \A s \in {<<>>, <<CH_STAR>>, <<CH_TAB, CH_STAR>>} :
           editorInsertRow(E, at, s) = E
    /\ \A at \in BadDelAt(E) : editorDelRow(E, at) = E

\* a full, edited buffer on which the calls with bad indices change nothing
C18_Witness ==
    /\ pc = "key"
    /\ E.numRows = MaxRows
    /\ E.dirty > 0
    /\ E.cy > 0
    /\ editorInsertRow(E, E.numRows + 1, <<CH_STAR>>) = E
    /\ editorDelRow(E, E.numRows) = E

\* key leaves the cursor of EE where it is
CursorStays(EE, key) ==
    /\ editorMoveCursor(EE, key).cx = EE.cx
    /\ editorMoveCursor(EE, key).cy = EE.cy

AtRowEnd(EE) == EE.cy < EE.numRows /\ EE.cx = EE.row[EE.cy + 1].size

EdgeNoOps(EE, firstRows) ==
    /\ (EE.cx = 0 /\ EE.cy = 0 /\ EE.numRows \in firstRows) => CursorStays(EE, ARROW_LEFT)
    /\ EE.cy = 0 => CursorStays(EE, ARROW_UP)
    /\ EE.cy = EE.numRows => CursorStays(EE, ARROW_DOWN)
    /\ (AtRowEnd(EE) \/ EE.cy = EE.numRows) => CursorStays(EE, ARROW_RIGHT)

\* C19: Arrow-Left at (0, 0), Arrow-Up at cy = 0, Arrow-Down at cy = numRows
\* and Arrow-Right at the end of a row leave the cursor where it is, whatever
\* the buffer holds, an empty first row included.
C19_EdgeNoOp == pc = "key" => EdgeNoOps(E, 0..MaxRows)

\* the same with Arrow-Left at (0, 0) looked at in an empty buffer only
C19_EdgeNoOpButLeft == pc = "key" => EdgeNoOps(E, {0})

\* Arrow-Left at (0, 0) stays put when the first row is not empty
C19_LeftOnText ==
    (pc = "key" /\ E.cx = 0 /\ E.cy = 0 /\ E.numRows > 0 /\ E.row[1].size > 0)
        => CursorStays(E, ARROW_LEFT)

\* ------------------------------------------------------------------------
\* Rendering
\* ------------------------------------------------------------------------
RECURSIVE TabExpand(_)
\* chars with each tab replaced by 8 - (col % 8) spaces, col being the length
\* of what comes before it once expanded
TabExpand(chars) ==
    IF chars = <<>> THEN <<>>
    ELSE LET before == TabExpand(SubSeq(chars, 1, Len(chars) - 1))
             last == chars[Len(chars)]
         IN IF last = CH_TAB
            THEN before \o [k \in 1..(CACTUS_TAB_STOP - (Len(before) % CACTUS_TAB_STOP)) |-> CH_SPACE]
            ELSE Append(before, last)

\* C20: the render text of a row is its raw text with every non-tab byte
\* copied and every tab replaced by 8 - (col % 8) spaces, which end on a
\* multiple of 8; a row of one tab renders as 8 spaces; rsize >= size.
C20_TabRendering ==
    \A k \in 1..E.numRows :
        LET row == E.row[k]
            raw == SubSeq(row.chars, 1, row.size)
        IN /\ row.rsize = Len(row.render)
           /\ row.render = TabExpand(raw)
           /\ \A i \in 1..row.size :
                  raw[i] = CH_TAB => Len(TabExpand(SubSeq(raw, 1, i))) % CACTUS_TAB_STOP = 0
           /\ raw = <<CH_TAB>> => row.render = [j \in 1..CACTUS_TAB_STOP |-> CH_SPACE]
           /\ row.rsize >= row.size

\* a tab that starts at column 1 and takes 7 columns, a byte after it
C20_Witness ==
    /\ pc = "key"
    /\ E.numRows = 1
    /\ SubSeq(E.row[1].chars, 1, E.row[1].size) = <<CH_STAR, CH_TAB, CH_STAR>>
    /\ E.row[1].rsize = CACTUS_TAB_STOP + 1

\* ------------------------------------------------------------------------
\* Render and highlight as functions
\* ------------------------------------------------------------------------
\* C21: editorUpdateRow called a second time on a row, nothing having changed
\* in between, gives the render bytes, highlight tags and hl_open_comment flag
\* the first call gave and changes no other row.
C21_UpdateRowIdempotent ==
    pc = "key" =>
        \A p \in 0..(E.numRows - 1) :
            editorUpdateRow(editorUpdateRow(E, p), p) = editorUpdateRow(E, p)

\* a row whose tags and flag are out of date: the first call changes them,
\* the second finds them as the first left them
C21_Witness ==
    /\ pc = "key"
    /\ E.syntax # NULL
    /\ \E p \in 0..(E.numRows - 1) :
           /\ editorUpdateRow(E, p).row[p + 1].hl # E.row[p + 1].hl
           /\ editorUpdateRow(E, p).row[p + 1].hl_open_comment # E.row[p + 1].hl_open_comment
           /\ editorUpdateRow(editorUpdateRow(E, p), p) = editorUpdateRow(E, p)

\* ------------------------------------------------------------------------
\* Cursor bounds, end of a search
\* ------------------------------------------------------------------------
CursorInBounds(EE) ==
    /\ 0 <= EE.cy
    /\ EE.cy <= EE.numRows
    /\ 0 <= EE.cx
    /\ EE.cx <= (IF EE.cy < EE.numRows THEN EE.row[EE.cy + 1].size ELSE 0)

\* C23: after every key handled, a finished or cancelled search included,
\* 0 <= cy <= numRows and 0 <= cx <= the length of row cy, with cx = 0 when
\* cy = numRows.
C23_CursorBounds == pc \in {"refresh", "key"} => CursorInBounds(E)

\* a search has ended with the cursor on the last byte of the last row
C23_Witness ==
    /\ pc = "refresh"
    /\ prompt = "none"
    /\ E.statusmsg.fmt = ""
    /\ E.numRows > 1
    /\ E.cy = E.numRows - 1
    /\ E.cx > 0
    /\ E.cx = E.row[E.cy + 1].size - 1

SessionEnded ==
    /\ prompt' = "none"
    /\ pc' = "refresh"
    /\ findSaved' = NoLocals
    /\ findStatic'.lastMatch = -1
    /\ findStatic'.direction = 1
    /\ findStatic'.saved_hl = <<>>

RenderStart(raw, cx) == Len(TabExpand(SubSeq(raw, 1, cx)))

\* C25: editorRowCxToRx(row, cx) is the offset in render at which raw byte cx
\* starts, rsize for cx = size; editorRowRxToCx takes it back to cx; and for
\* every rx inside the expansion of a tab editorRowRxToCx gives the index of
\* that tab.
C25_ColumnConversions ==
    \A k \in 1..E.numRows :
        LET row == E.row[k]
            raw == SubSeq(row.chars, 1, row.size)
        IN /\ \A cx \in 0..row.size :
                  /\ editorRowCxToRx(row, cx) = RenderStart(raw, cx)
                  /\ editorRowRxToCx(row, editorRowCxToRx(row, cx)) = cx
           /\ editorRowCxToRx(row, row.size) = row.rsize
           /\ \A t \in 0..(row.size - 1) :
                  raw[t + 1] = CH_TAB =>
                      \A rx \in RenderStart(raw, t)..(RenderStart(raw, t + 1) - 1) :
                          editorRowRxToCx(row, rx) = t

\* a tab that starts at column 1, between two bytes
C25_Witness ==
    /\ pc = "key"
    /\ E.numRows = 1
    /\ SubSeq(E.row[1].chars, 1, E.row[1].size) = <<CH_SPACE, CH_TAB, CH_SPACE>>
    /\ editorRowCxToRx(E.row[1], 2) = CACTUS_TAB_STOP
    /\ editorRowRxToCx(E.row[1], 5) = 1

\* ------------------------------------------------------------------------
\* Keywords and numbers
\* ------------------------------------------------------------------------
WordTags == {HL_KEYWORDS, HL_COMMON_TYPES}

\* a run of tags from tags begins at byte i (from 1) of row
RunStarts(row, i, tags) ==
    /\ row.hl[i] \in tags
    /\ i > 1 => row.hl[i - 1] # row.hl[i]

RunEnds(row, i, tags) ==
    /\ row.hl[i] \in tags
    /\ i < row.rsize => row.hl[i + 1] # row.hl[i]

\* the runs of keyword, type and number tags of every row start at the start
\* of the row or after a byte that is a separator or satisfies after, and the
\* keyword runs end at the end of the row or before a separator
WordBoundaries(after(_, _)) ==
    \A k \in 1..E.numRows :
        \A i \in 1..E.row[k].rsize :
            /\ (RunStarts(E.row[k], i, WordTags) \/ RunStarts(E.row[k], i, {HL_NUMBER})) =>
                   \/ i = 1
                   \/ is_seperator(E.row[k].render[i - 1])
                   \/ after(E.row[k], i - 1)
            /\ RunEnds(E.row[k], i, WordTags) =>
                   \/ i = E.row[k].rsize
                   \/ is_seperator(E.row[k].render[i + 1])

Never(row, i) == FALSE

ClosesString(row, i) == row.hl[i] = HL_STRING /\ row.render[i] \in {CH_DQUOTE, CH_SQUOTE}

\* C26 as stated: in every highlighted row a run of keyword, type or number
\* tags begins only at the start of the row or after a separator, and a
\* keyword run is followed by a separator or the end of the row.
C26_AfterSeparatorOnly == (pc = "key" /\ E.syntax # NULL) => WordBoundaries(Never)

\* C26: in every highlighted row a run of keyword, type or number tags begins
\* only at the start of the row, after a separator, or after the quote that
\* closes a string; a keyword run is followed by a separator or the end of the
\* row.
C26_WordBoundaries == (pc = "key" /\ E.syntax # NULL) => WordBoundaries(ClosesString)

\* a keyword between two spaces
C26_Witness ==
    /\ pc = "key"
    /\ E.syntax # NULL
    /\ E.numRows = 1
    /\ E.row[1].render = <<CH_SPACE, 105, 102, CH_SPACE>>
    /\ E.row[1].hl = <<HL_NORMAL, HL_KEYWORDS, HL_KEYWORDS, HL_NORMAL>>

\* ------------------------------------------------------------------------
\* Propagation of the comment state
\* ------------------------------------------------------------------------
\* EE as editorRowInsertChar has it when it calls editorUpdateSyntax: c put
\* into row p at offset at and rendered, the tags not yet computed
BeforeUpdateSyntax(EE, p, at, c) ==
    LET row == EE.row[p + 1]
        chars == SubSeq(row.chars, 1, at) \o <<c>> \o SubSeq(row.chars, at + 1, row.size)
    IN SetRender([EE EXCEPT !.row[p + 1].chars = chars, !.row[p + 1].size = @ + 1],
                 p, RenderLoop(chars, row.size + 1, 0, <<>>))

\* editorUpdateSyntax called on row p of EE scans row p, then the rows below
\* it one after the other, each once, goes on only from a row whose flag it
\* has changed, stops at the last row at the latest, leaves every row it has
\* scanned with the tags and the flag of a scan seeded by the row above, and
\* every other row as it was
PropagatesDown(EE, p) ==
    LET v == UpdateSyntaxVisits(EE, p)
        after == editorUpdateSyntax(EE, p)
    IN /\ v[1] = p
       /\ \A j \in 2..Len(v) : v[j] = v[j - 1] + 1
       /\ v[Len(v)] <= EE.numRows - 1
       /\ \A j \in 1..(Len(v) - 1) :
              after.row[v[j] + 1].hl_open_comment # EE.row[v[j] + 1].hl_open_comment
       /\ \A j \in 1..Len(v) :
              LET row == after.row[v[j] + 1]
                  res == SyntaxScan(row.render, NormalHl(row), 0, 1, 0,
                                    SeedComment(after, row))
              IN EE.syntax # NULL =>
                     (row.hl = res.hl /\ row.hl_open_comment = res.in_comment)
       /\ \/ v[Len(v)] = EE.numRows - 1
          \/ after.row[v[Len(v)] + 1].hl_open_comment = EE.row[v[Len(v)] + 1].hl_open_comment
       /\ \A k \in 1..Len(EE.row) :
              (k - 1 < p \/ k - 1 > v[Len(v)]) => after.row[k] = EE.row[k]
       /\ after.numRows = EE.numRows

\* C27: a call of editorUpdateSyntax on row i re-highlights only rows below
\* i, each at most once, goes on to the next row only when a row's
\* hl_open_comment flag has changed, and stops at the last row of the buffer
\* at the latest.
C27_PropagationTerminates ==
    pc = "key" =>
        \A p \in 0..(E.numRows - 1) :
            /\ PropagatesDown(E, p)
            /\ \A at \in 0..E.row[p + 1].size : \A c \in {CH_STAR, CH_SLASH} :
                   PropagatesDown(BeforeUpdateSyntax(E, p, at, c), p)

\* a byte typed into a row opens a comment and the rows below are scanned again
C27_Witness ==
    /\ pc = "key"
    /\ E.syntax # NULL
    /\ E.numRows = MaxRows
    /\ \E at \in 0..E.row[1].size :
           /\ Len(UpdateSyntaxVisits(BeforeUpdateSyntax(E, 0, at, CH_STAR), 0)) = MaxRows
           /\ PropagatesDown(BeforeUpdateSyntax(E, 0, at, CH_STAR), 0)

\* ------------------------------------------------------------------------
\* The frame on the terminal
\* ------------------------------------------------------------------------
\* how many times the bytes s occur in w
Occurrences(w, s) ==
    Cardinality({k \in 1..(Len(w) - Len(s) + 1) : SubSeq(w, k, k + Len(s) - 1) = s})

\* w is a whole frame of the editor EE: the cursor hidden and sent home, a
\* line for each row of the screen, the status bar, the message bar with or
\* without the message, the cursor placed and shown again
WholeFrame(w, EE) ==
    /\ \E late \in BOOLEAN :
           w = ESC_HIDE_CURSOR \o ESC_HOME \o editorDrawRows(<<>>, EE)
               \o editorDrawStatusBar(<<>>, EE) \o editorDrawMessageBar(<<>>, EE, late)
               \o CursorSequence(EE) \o ESC_SHOW_CURSOR
    /\ Occurrences(w, CRLF) = EE.screenRows + 1

\* C22: every refresh composes the visible rows, the status line and the
\* message line in one buffer and writes it with one write once it is composed;
\* when a key is read, in the main loop or in a prompt, exactly one write has
\* happened since the key before, and it is a whole frame.
C22_AtomicFrame ==
    /\ [](pc = "key" => (Len(tty) = 1 /\ WholeFrame(tty[1], E)))
    /\ [][(RefreshScreen \/ RefreshScreenLate) => Len(tty') = Len(tty) + 1]_vars

\* a key is about to be read in the main loop, the frame before it shows a
\* modified file in the wide window, file name to the left and position to the
\* right
C22_Witness ==
    /\ pc = "key"
    /\ prompt = "none"
    /\ E.screenCols = 40
    /\ E.filename = "main.c"
    /\ E.numRows = 1
    /\ E.dirty # 0
    /\ Len(tty) = 1
    /\ Occurrences(tty[1], NameBytes(E.filename)) = 1
    /\ Occurrences(tty[1], StatusRight(E)) = 1

\* ------------------------------------------------------------------------
\* Control characters on the screen
\* ------------------------------------------------------------------------
\* current_color when the loop of editorDrawRows reaches byte j of the slice:
\* the colour of the last byte before j that is not a control character
ColorAt(c, hl, j) ==
    LET drawn == {k \in 1..j : ~iscntrl(c[k])}
    IN IF drawn = {} THEN -1
       ELSE LET last == CHOOSE k \in drawn : \A m \in drawn : m <= k
            IN IF hl[last] = HL_NORMAL THEN -1 ELSE editorSyntaxToColor(hl[last])

\* what a control character c is to be shown as when the colour is color
ControlShown(c, color) ==
    ESC_INVERSE \o <<IF c <= 26 THEN 64 + c ELSE 63>> \o ESC_RESET
    \o (IF color # -1 THEN ColorSequence(color) ELSE <<>>)

\* the text rows on the screen
VisibleRows(EE) == {EE.row[k] : k \in {y + EE.rowOff + 1 : y \in 0..(EE.screenRows - 1)}
                                      \cap 1..EE.numRows}

\* C28: for every control byte in the visible slice of a row the composer
\* emits the inverse-video sequence, the glyph ('@' + byte up to 26, '?' above),
\* the complete attribute-reset sequence, and then the current colour again
\* if it is not the default; so in the frame written every inverse-video
\* sequence of the text rows is followed by a glyph and the reset sequence.
C28_ControlRendering ==
    pc = "key" =>
        /\ \A row \in VisibleRows(E) : \A j \in 0..(DrawLen(E, row) - 1) :
               iscntrl(row.render[E.colOff + j + 1]) =>
                   DrawControl(<<>>, row.render[E.colOff + j + 1],
                               ColorAt(SubSeq(row.render, E.colOff + 1, row.rsize),
                                       SubSeq(row.hl, E.colOff + 1, row.rsize), j))
                   = ControlShown(row.render[E.colOff + j + 1],
                                  ColorAt(SubSeq(row.render, E.colOff + 1, row.rsize),
                                          SubSeq(row.hl, E.colOff + 1, row.rsize), j))
        /\ \A w \in {tty[k] : k \in 1..Len(tty)} :
               LET rows == editorDrawRows(<<>>, E)
               IN \A k \in 1..(Len(rows) - 3) :
                      SubSeq(rows, k, k + 3) = ESC_INVERSE =>
                          SubSeq(w, Len(ESC_HIDE_CURSOR \o ESC_HOME) + k + 5,
                                 Len(ESC_HIDE_CURSOR \o ESC_HOME) + k + 7) = ESC_RESET

====
